---- MODULE Spec2Model ----
(***************************************************************************)
(* Verification model of the crawl-and-analyze pipeline of seoapp:         *)
(*   - WebCrawler (app/crawler.py): frontier, batched BFS, page fetcher    *)
(*   - run_audit (app/main.py): analyzer scheduler                         *)
(*   - BroadcastChannel / event_generator (app/main.py): progress fan-out  *)
(*   - DuplicatesAnalyzer (app/analyzers/duplicates.py)                    *)
(* Each component has its own specification (SpecCrawl, SpecSite,         *)
(* SpecAudit, SpecSSE, SpecChan, SpecDup, SpecGroup, SpecNorm); the        *)
(* variables of the other components stay idle.                            *)
(***************************************************************************)
EXTENDS Integers, Sequences, FiniteSets, TLC

VARIABLES
    \* ---- WebCrawler (app/crawler.py) ----
    max_pages,          \* self.max_pages
    parallel_requests,  \* self.parallel_requests
    visited,            \* self.visited
    queue,              \* self.queue: deque of <<url, depth>>
    pages,              \* self.pages: url -> PageData
    batch,              \* the batch popped by the current loop iteration
    results,            \* per batch entry: "not_started", "running" or the task's result
    res_idx,            \* position of "for page in results"
    crawl_pc,           \* "init", "loop", "gather", "done", "raised"
    permits,            \* free permits of self.semaphore
    open_pages,         \* browser pages opened and not yet closed
    dequeued,           \* history: entries popped from the queue, in order
    enqueued,           \* history: entries appended to the queue, in order
    outcome_of,         \* history: what the network answered for each fetched url
    \* ---- run_audit (app/main.py) ----
    non_speed_selected, \* names of the selected units other than "speed"
    speed_selected,     \* "speed" in selected
    audit_pc,           \* position of the run_audit coroutine
    audit_status,       \* audit.status
    speed_task,         \* "none", "running", or how the early task ended
    unit_state,         \* per run_single_analyzer task: "pending", "running", "finished"
    unit_outcome,       \* per task: how analyzer.analyze under wait_for ended
    analyzer_permits,   \* free permits of the process-wide _analyzer_semaphore
    other_holders,      \* permits held by units of other audits of the process
    completed_non_speed,\* completed_non_speed[0]
    speed_completed,    \* speed_completed[0]
    running_analyzers,  \* running_analyzers
    audit_results,      \* results: name -> kind of AnalyzerResult
    successful_analyzers,
    failed_analyzers,
    sem_waited,         \* history: a unit of this audit had to wait for a permit
    pages_dict,         \* pages: the records run_audit collects ("cached" or "cleared")
    audit_pages_set,    \* audit.pages has been set to the pages dict
    crawl_timed_out,    \* history: the crawl deadline expired
    pages_crawled,      \* audit.pages_crawled
    last_event,         \* the latest ProgressEvent emitted
    events_emitted,     \* number of ProgressEvents emitted
    \* ---- DuplicatesAnalyzer.analyze (app/analyzers/duplicates.py) ----
    dup_pages,          \* pages: the crawled pages, in dict order
    dup_pc,             \* "signatures", "compare", "group", "done"
    dup_urls,           \* urls = list(signatures.keys())
    signatures,
    text_hashes,
    content_word_counts,
    normalized_urls,
    canonical_targets,
    exact_duplicate_pairs,
    near_duplicate_pairs,
    canonical_pairs_skipped,
    exact_groups,
    near_groups,
    \* ---- progress fan-out (app/main.py) ----
    sse_emitted,        \* number of emit_progress calls of the audit so far
    sse_audit_done,     \* the last event emitted was COMPLETED or FAILED
    sse_history,        \* audit_progress_history[audit_id]: deque(maxlen=20)
    sse_subscribers,    \* channel.subscribers (queues named by their session)
    sse_mailbox,        \* the asyncio.Queue of the current session
    sse_pc,             \* event_generator: "idle", "replay", "stream", "closed", "crashed"
    sse_iter,           \* iterator of "for event in history": index and deque state
    sse_delivered,      \* history: progress events yielded to the current session
    sse_snapshot,       \* history: the history buffer when the session subscribed
    sse_session,        \* number of sessions opened so far
    sse_expired,        \* time.time() - start_time > MAX_SSE_DURATION
    \* ---- BroadcastChannel (app/main.py) ----
    chan_subscribers,   \* self.subscribers: the queues subscribed, by number
    chan_queues,        \* every queue created by subscribe(): maxsize and items
    chan_broadcasts,    \* number of broadcast() calls so far
    \* ---- URL normalisation (app/crawler.py, app/analyzers/duplicates.py) ----
    norm_url,           \* the URL given to the normalizer
    norm_which,         \* "crawler" or "duplicates": whose _normalize_url is applied
    norm_results,       \* the results of applying it once, twice, ...
    \* ---- DuplicatesAnalyzer._group_pairs alone ----
    gp_pairs,           \* the pairs handed to _group_pairs
    gp_groups,          \* the groups it returned
    gp_pc,              \* "call", "returned"
    \* ---- a site given beforehand ----
    site                \* the link list the site serves for each URL, when it is fixed beforehand

crawlVars == <<max_pages, parallel_requests, visited, queue, pages, batch,
               results, res_idx, crawl_pc, permits, open_pages, dequeued,
               enqueued, outcome_of>>

auditVars == <<non_speed_selected, speed_selected, audit_pc, audit_status,
               speed_task, unit_state, unit_outcome, analyzer_permits,
               other_holders, completed_non_speed, speed_completed,
               running_analyzers, audit_results, successful_analyzers,
               failed_analyzers, sem_waited, pages_dict, audit_pages_set,
               crawl_timed_out, pages_crawled, last_event, events_emitted>>

dupVars == <<dup_pages, dup_pc, dup_urls, signatures, text_hashes,
             content_word_counts, normalized_urls, canonical_targets,
             exact_duplicate_pairs, near_duplicate_pairs,
             canonical_pairs_skipped, exact_groups, near_groups>>

sseVars == <<sse_emitted, sse_audit_done, sse_history, sse_subscribers,
             sse_mailbox, sse_pc, sse_iter, sse_delivered, sse_snapshot,
             sse_session, sse_expired>>

chanVars == <<chan_subscribers, chan_queues, chan_broadcasts>>

normVars == <<norm_url, norm_which, norm_results>>

groupVars == <<gp_pairs, gp_groups, gp_pc>>

siteVars == <<site>>

vars == <<crawlVars, auditVars, dupVars, sseVars, chanVars, normVars, groupVars, siteVars>>

\* what each specification leaves alone
notCrawlVars == <<auditVars, dupVars, sseVars, chanVars, normVars, groupVars, siteVars>>
notAuditVars == <<crawlVars, dupVars, sseVars, chanVars, normVars, groupVars, siteVars>>
notDupVars   == <<crawlVars, auditVars, sseVars, chanVars, normVars, groupVars, siteVars>>
notSseVars   == <<crawlVars, auditVars, dupVars, chanVars, normVars, groupVars, siteVars>>
notChanVars == <<crawlVars, auditVars, dupVars, sseVars, normVars, groupVars, siteVars>>
notNormVars == <<crawlVars, auditVars, dupVars, sseVars, chanVars, groupVars, siteVars>>
notGroupVars == <<crawlVars, auditVars, dupVars, sseVars, chanVars, normVars, siteVars>>
notSiteVars == <<crawlVars, auditVars, dupVars, sseVars, chanVars, normVars, groupVars>>

(***************************************************************************)
(* Bounds of the model.                                                    *)
(***************************************************************************)
MaxPagesCap == 4     \* max_pages ranges over 1..MaxPagesCap
MaxParallel == 2     \* parallel_requests ranges over 1..MaxParallel
MaxLinks    == 2     \* a page carries at most MaxLinks internal links

Min(a, b) == IF a < b THEN a ELSE b

Range(s) == {s[i] : i \in 1..Len(s)}

IsInjective(s) == \A i, j \in 1..Len(s) : s[i] = s[j] => i = j

(***************************************************************************)
(* URLs.  A URL string is kept as the parts urlsplit finds in it, the path  *)
(* (with the parameters of its last segment) as a sequence of tokens: "/"  *)
(* separators, ";" separators, names, extensions.                          *)
(***************************************************************************)
Url(netloc, path, fragment) ==
    [scheme |-> "https", netloc |-> netloc, path |-> path,
     query |-> "", fragment |-> fragment]

\* str.lower() on the strings that occur in the model
LowerTable ==
    [s \in {"Example.COM", ".PDF"} |->
        IF s = "Example.COM" THEN "example.com" ELSE ".pdf"]

Lower(s) == IF s \in DOMAIN LowerTable THEN LowerTable[s] ELSE s

\* str.rstrip('/') on a token sequence
RECURSIVE RStripSlash(_)
RStripSlash(p) ==
    IF p # <<>> /\ p[Len(p)] = "/" THEN RStripSlash(SubSeq(p, 1, Len(p) - 1))
    ELSE p

\* the position of the last "/" of a path, 0 when it has none
rfind_slash(p) ==
    IF \E i \in 1..Len(p) : p[i] = "/"
    THEN CHOOSE i \in 1..Len(p) :
            p[i] = "/" /\ \A j \in (i + 1)..Len(p) : p[j] # "/"
    ELSE 0

\* urllib.parse._splitparams, the path it returns: urlparse cuts the path at
\* the first ";" of its last segment, what follows being the params
_splitparams(p) ==
    LET semicolons == {i \in (rfind_slash(p) + 1)..Len(p) : p[i] = ";"}
    IN  IF semicolons = {} THEN p
        ELSE SubSeq(p, 1, (CHOOSE i \in semicolons :
                              \A j \in semicolons : i <= j) - 1)

\* urlparse(url).path: "if scheme in uses_params and ';' in url" the path is
\* split, otherwise it is the path of urlsplit
urlparse_path(u) ==
    IF \E i \in 1..Len(u.path) : u.path[i] = ";"
    THEN _splitparams(u.path) ELSE u.path

\* WebCrawler._normalize_url: urlunparse with empty params and fragment
_normalize_url(u) ==
    [scheme   |-> u.scheme,
     netloc   |-> Lower(u.netloc),
     path     |-> IF urlparse_path(u) # <<"/">>
                  THEN RStripSlash(urlparse_path(u)) ELSE <<"/">>,
     query    |-> u.query,
     fragment |-> ""]

skip_extensions ==
    {".pdf", ".doc", ".docx", ".xls", ".xlsx", ".ppt", ".pptx",
     ".zip", ".rar", ".tar", ".gz", ".7z",
     ".jpg", ".jpeg", ".png", ".gif", ".svg", ".webp", ".ico",
     ".mp3", ".mp4", ".avi", ".mov", ".wmv",
     ".css", ".js", ".json", ".xml"}

start_url == _normalize_url(Url("Example.COM", <<"/">>, ""))

base_domain == start_url.netloc

\* WebCrawler._is_valid_url
_is_valid_url(u) ==
    /\ u.scheme \in {"http", "https"}
    /\ Lower(u.netloc) = Lower(base_domain)
    /\ ~(u.path # <<>> /\ Lower(u.path[Len(u.path)]) \in skip_extensions)

\* hrefs found in the fetched documents, as written by the site's authors:
\* content links and the download link of the site template
ContentHrefs ==
    { Url("example.com", <<"/", "b", "/">>, ""),
      Url("Example.COM", <<"/", "c">>, "top"),
      Url("example.com", <<"/", "d">>, "") }

TemplateHref == Url("example.com", <<"/", "p", ".PDF">>, "")

\* _extract_links stores every internal link normalized (crawler.py:176)
LinkTargets == {_normalize_url(h) : h \in ContentHrefs}

\* content links of one document: no repetition (seen_internal), bounded
LinkLists ==
    {s \in UNION {[1..n -> LinkTargets] : n \in 0..MaxLinks} : IsInjective(s)}

\* internal_links of the document an outcome delivers: the template link
\* followed by any content links for a 200 document, by one content link
\* for an error document; nothing without a document
DocumentLinks(outcome) ==
    CASE outcome = "ok" ->
             {<<_normalize_url(TemplateHref)>> \o l : l \in LinkLists}
      [] outcome = "http_error" ->
             {<<_normalize_url(TemplateHref)>> \o l : l \in {x \in LinkLists : Len(x) = 1}}
      [] OTHER -> {<<>>}

\* internal_links of the document the fetch of url gets: any document, or
\* the one of the site given beforehand
ServedLinks(url, outcome) ==
    IF DOMAIN site = {} THEN DocumentLinks(outcome)
    ELSE IF outcome \in {"ok", "http_error"} THEN {site[url]}
    ELSE {<<>>}

\* the seed has no parent page
NoParent == Url("", <<>>, "")

PageA == start_url
PageB == _normalize_url(Url("example.com", <<"/", "b">>, ""))
PageC == _normalize_url(Url("example.com", <<"/", "c">>, ""))
PageD == _normalize_url(Url("example.com", <<"/", "d">>, ""))
PageP == _normalize_url(TemplateHref)

(***************************************************************************)
(* Page fetcher.                                                           *)
(***************************************************************************)
\* what page.goto / the response can do for one request
Outcomes == {"ok", "http_error", "no_response", "exception", "non_html"}

PageData(url, status_code, depth, internal_links) ==
    [url |-> url, status_code |-> status_code, depth |-> depth,
     internal_links |-> internal_links]

\* the history keeps the two ways of failing (lines 215 and 311) as one
OutcomeClass(outcome) ==
    IF outcome \in {"no_response", "exception"} THEN "failed" ELSE outcome

NoPage == PageData(start_url, -1, -1, <<>>)

\* what a finished _fetch_page task hands to gather
Returned(page) == [state |-> "done", kind |-> "page", page |-> page]
ReturnedNone   == [state |-> "done", kind |-> "None", page |-> NoPage]
Raised         == [state |-> "done", kind |-> "RAISE", page |-> NoPage]
NotStarted     == [state |-> "not_started", kind |-> "None", page |-> NoPage]
Running        == [state |-> "running", kind |-> "None", page |-> NoPage]

\* variant: the exception of page.goto is not caught
_fetch_page_Propagates(url, depth, outcome, links) ==
    CASE outcome = "no_response" -> Returned(PageData(url, 0, depth, <<>>))
      [] outcome = "non_html"    -> ReturnedNone
      [] outcome = "ok"          -> Returned(PageData(url, 200, depth, links))
      [] outcome = "http_error"  -> Returned(PageData(url, 404, depth, links))
      [] outcome = "exception"   -> Raised

\* variant: a non-HTML response is answered with a status-0 placeholder
_fetch_page_NonHtmlPlaceholder(url, depth, outcome, links) ==
    CASE outcome = "no_response" -> Returned(PageData(url, 0, depth, <<>>))
      [] outcome = "non_html"    -> Returned(PageData(url, 0, depth, <<>>))
      [] outcome = "ok"          -> Returned(PageData(url, 200, depth, links))
      [] outcome = "http_error"  -> Returned(PageData(url, 404, depth, links))
      [] outcome = "exception"   -> Returned(PageData(url, 0, depth, <<>>))

\* WebCrawler._fetch_page: the PageData returned, None, or the exception
\* that leaves the coroutine
_fetch_page(url, depth, outcome, links) ==
    CASE outcome = "no_response" -> Returned(PageData(url, 0, depth, <<>>))
      [] outcome = "non_html"    -> ReturnedNone
      [] outcome = "ok"          -> Returned(PageData(url, 200, depth, links))
      [] outcome = "http_error"  -> Returned(PageData(url, 404, depth, links))
      [] outcome = "exception"   -> Returned(PageData(url, 0, depth, <<>>))

IsTaskDone(r) == r.state = "done"

\* variant: the page is closed at the end of the try block, so not when
\* page.goto raised
ClosePage_NotOnException(open, url, outcome) ==
    IF outcome = "exception" THEN open ELSE open \ {url}

\* "finally: if page: await page.close()": the early returns and the
\* except branch all pass through it
ClosePage(open, url, outcome) == open \ {url}

(***************************************************************************)
(* Frontier.                                                               *)
(***************************************************************************)
\* variant: deque.appendleft
QueueAppend_Left(q, e) == <<e>> \o q

\* deque.append
QueueAppend(q, e) == Append(q, e)

\* variant: the visited test is dropped
NotVisited_Dropped(u, vis) == TRUE

\* "normalized_link not in self.visited"
NotVisited(u, vis) == u \notin vis

\* variant: off-by-one cap test
CapAllows_OffByOne(vis, cap) == Cardinality(vis) <= cap

\* variant: links are enqueued whatever the number of visited URLs
CapAllows_NoCap(vis, cap) == TRUE

\* "len(self.visited) < self.max_pages"
CapAllows(vis, cap) == Cardinality(vis) < cap

\* variant: a link inherits the depth of the page it was found on
ChildDepth_OfParent(d) == d

\* depth given to a link found on a page of depth d
ChildDepth(d) == d + 1

\* the "for link in page.internal_links" loop of crawl, on state
\* st = [visited, queue, enqueued]
RECURSIVE EnqueueLinks(_, _, _, _)
EnqueueLinks(links, page, st, cap) ==
    IF links = <<>> THEN st
    ELSE LET normalized_link == _normalize_url(Head(links))
             e == <<normalized_link, ChildDepth(page.depth)>>
         IN  IF /\ NotVisited(normalized_link, st.visited)
                /\ _is_valid_url(normalized_link)
                /\ CapAllows(st.visited, cap)
             THEN EnqueueLinks(Tail(links), page,
                      [visited  |-> st.visited \cup {normalized_link},
                       queue    |-> QueueAppend(st.queue, e),
                       enqueued |-> Append(st.enqueued,
                                       [url |-> normalized_link,
                                        depth |-> e[2],
                                        parent |-> page.url])],
                      cap)
             ELSE EnqueueLinks(Tail(links), page, st, cap)

\* "page.status_code == 200"
ExpandsLinks(page) == page.status_code = 200

(***************************************************************************)
(* Idle values of the components a specification does not exercise.        *)
(***************************************************************************)
AuditIdle ==
    /\ non_speed_selected = <<>>
    /\ speed_selected = FALSE
    /\ audit_pc = "idle"
    /\ audit_status = "pending"
    /\ speed_task = "none"
    /\ unit_state = <<>>
    /\ unit_outcome = <<>>
    /\ analyzer_permits = 0
    /\ other_holders = 0
    /\ completed_non_speed = 0
    /\ speed_completed = FALSE
    /\ running_analyzers = {}
    /\ audit_results = <<>>
    /\ successful_analyzers = <<>>
    /\ failed_analyzers = <<>>
    /\ sem_waited = FALSE
    /\ pages_dict = <<>>
    /\ audit_pages_set = FALSE
    /\ crawl_timed_out = FALSE
    /\ pages_crawled = 0
    /\ last_event = [status |-> "none", analyzers_completed |-> 0]
    /\ events_emitted = 0

DupIdle ==
    /\ dup_pages = <<>>
    /\ dup_pc = "idle"
    /\ dup_urls = <<>>
    /\ signatures = <<>>
    /\ text_hashes = <<>>
    /\ content_word_counts = <<>>
    /\ normalized_urls = <<>>
    /\ canonical_targets = <<>>
    /\ exact_duplicate_pairs = <<>>
    /\ near_duplicate_pairs = <<>>
    /\ canonical_pairs_skipped = 0
    /\ exact_groups = {}
    /\ near_groups = {}

NoIterator == [index |-> 0, state |-> 0]

SseIdle ==
    /\ sse_emitted = 0
    /\ sse_audit_done = FALSE
    /\ sse_history = <<>>
    /\ sse_subscribers = {}
    /\ sse_mailbox = <<>>
    /\ sse_pc = "idle"
    /\ sse_iter = NoIterator
    /\ sse_delivered = <<>>
    /\ sse_snapshot = <<>>
    /\ sse_session = 0
    /\ sse_expired = FALSE

ChanIdle ==
    /\ chan_subscribers = {}
    /\ chan_queues = <<>>
    /\ chan_broadcasts = 0

NormIdle ==
    /\ norm_url = <<>>
    /\ norm_which = "none"
    /\ norm_results = <<>>

GroupIdle ==
    /\ gp_pairs = <<>>
    /\ gp_groups = {}
    /\ gp_pc = "idle"

SiteIdle ==
    /\ site = <<>>

CrawlIdle ==
    /\ max_pages = 1
    /\ parallel_requests = 1
    /\ visited = {}
    /\ queue = <<>>
    /\ pages = <<>>
    /\ batch = <<>>
    /\ results = <<>>
    /\ res_idx = 1
    /\ crawl_pc = "idle"
    /\ permits = 0
    /\ open_pages = {}
    /\ dequeued = <<>>
    /\ enqueued = <<>>
    /\ outcome_of = <<>>

(***************************************************************************)
(* WebCrawler: actions.                                                    *)
(***************************************************************************)
CrawlerConstructed ==
    /\ max_pages \in 1..MaxPagesCap
    /\ parallel_requests \in 1..MaxParallel
    /\ visited = {}
    /\ queue = <<>>
    /\ pages = <<>>
    /\ batch = <<>>
    /\ results = <<>>
    /\ res_idx = 1
    /\ crawl_pc = "init"
    /\ permits = parallel_requests
    /\ open_pages = {}
    /\ dequeued = <<>>
    /\ enqueued = <<>>
    /\ outcome_of = <<>>

\* crawl(): the seed is appended and marked visited
CrawlBegin ==
    /\ crawl_pc = "init"
    /\ queue' = QueueAppend(queue, <<start_url, 0>>)
    /\ visited' = visited \cup {start_url}
    /\ enqueued' = Append(enqueued,
                          [url |-> start_url, depth |-> 0, parent |-> NoParent])
    /\ crawl_pc' = "loop"
    /\ UNCHANGED <<max_pages, parallel_requests, pages, batch, results,
                   res_idx, permits, open_pages, dequeued, outcome_of>>
    /\ UNCHANGED notCrawlVars

LoopCondition == queue # <<>> /\ Cardinality(DOMAIN pages) < max_pages

\* one iteration of the while loop up to the creation of the fetch tasks
NextBatch ==
    /\ crawl_pc = "loop"
    /\ LoopCondition
    /\ LET batch_size == Min(parallel_requests, Len(queue))
       IN  /\ batch' = SubSeq(queue, 1, batch_size)
           /\ queue' = SubSeq(queue, batch_size + 1, Len(queue))
           /\ dequeued' = dequeued \o SubSeq(queue, 1, batch_size)
           /\ results' = [i \in 1..batch_size |-> NotStarted]
    /\ res_idx' = 1
    /\ crawl_pc' = "gather"
    /\ UNCHANGED <<max_pages, parallel_requests, visited, pages, permits,
                   open_pages, enqueued, outcome_of>>
    /\ UNCHANGED notCrawlVars

\* the while condition is false: the crawl generator is exhausted
LoopExit ==
    /\ crawl_pc = "loop"
    /\ ~LoopCondition
    /\ crawl_pc' = "done"
    /\ UNCHANGED <<max_pages, parallel_requests, visited, queue, pages, batch,
                   results, res_idx, permits, open_pages, dequeued, enqueued,
                   outcome_of>>
    /\ UNCHANGED notCrawlVars

\* _fetch_page up to "await page.goto": permit taken, browser page opened.
\* gather starts its tasks in batch order.
FetchBegin(i) ==
    /\ crawl_pc = "gather"
    /\ i \in 1..Len(results)
    /\ results[i].state = "not_started"
    /\ \A j \in 1..(i - 1) : results[j].state # "not_started"
    /\ permits > 0
    /\ permits' = permits - 1
    /\ open_pages' = open_pages \cup {batch[i][1]}
    /\ results' = [results EXCEPT ![i] = Running]
    /\ UNCHANGED <<max_pages, parallel_requests, visited, queue, pages, batch,
                   res_idx, crawl_pc, dequeued, enqueued, outcome_of>>
    /\ UNCHANGED notCrawlVars

\* _fetch_page from the answer of page.goto to the end: result built, page
\* closed (finally), permit returned.  Every task of the batch has reached
\* its first await before any network answer arrives.
FetchEnd(i) ==
    /\ crawl_pc = "gather"
    /\ i \in 1..Len(results)
    /\ results[i].state = "running"
    /\ \A j \in 1..Len(results) : results[j].state # "not_started"
    /\ \E outcome \in Outcomes :
       \E links \in ServedLinks(batch[i][1], outcome) :
          /\ results' = [results EXCEPT
                           ![i] = _fetch_page(batch[i][1], batch[i][2], outcome, links)]
          /\ outcome_of' = outcome_of @@ (batch[i][1] :> OutcomeClass(outcome))
          /\ open_pages' = ClosePage(open_pages, batch[i][1], outcome)
    /\ permits' = permits + 1
    /\ UNCHANGED <<max_pages, parallel_requests, visited, queue, pages, batch,
                   res_idx, crawl_pc, dequeued, enqueued>>
    /\ UNCHANGED notCrawlVars

GatherDone == \A i \in 1..Len(results) : IsTaskDone(results[i])

GatherRaised == \E i \in 1..Len(results) : results[i].kind = "RAISE"

\* crawl resumes after "await asyncio.gather(*tasks)": an exception of a
\* task is re-raised into crawl; otherwise one iteration of
\* "for page in results" runs (None skipped; otherwise the page is stored,
\* yielded, and its links are enqueued when the status is 200)
ProcessResult ==
    /\ crawl_pc = "gather"
    /\ GatherDone
    /\ res_idx <= Len(results)
    /\ IF GatherRaised
       THEN /\ crawl_pc' = "raised"
            /\ UNCHANGED <<pages, visited, queue, enqueued, res_idx>>
       ELSE /\ LET page == results[res_idx].page
               IN  IF results[res_idx].kind = "None"
                   THEN UNCHANGED <<pages, visited, queue, enqueued>>
                   ELSE /\ pages' = (page.url :> page) @@ pages
                        /\ LET st == IF ExpandsLinks(page)
                                     THEN EnqueueLinks(page.internal_links, page,
                                              [visited |-> visited, queue |-> queue,
                                               enqueued |-> enqueued], max_pages)
                                     ELSE [visited |-> visited, queue |-> queue,
                                           enqueued |-> enqueued]
                           IN  /\ visited' = st.visited
                               /\ queue' = st.queue
                               /\ enqueued' = st.enqueued
            /\ res_idx' = res_idx + 1
            /\ crawl_pc' = IF res_idx = Len(results) THEN "loop" ELSE "gather"
    /\ UNCHANGED <<max_pages, parallel_requests, batch, results, permits,
                   open_pages, dequeued, outcome_of>>
    /\ UNCHANGED notCrawlVars

CrawlNext ==
    \/ CrawlBegin
    \/ NextBatch
    \/ LoopExit
    \/ \E i \in 1..Len(results) : FetchBegin(i)
    \/ \E i \in 1..Len(results) : FetchEnd(i)
    \/ ProcessResult

CrawlInit == CrawlerConstructed /\ AuditIdle /\ DupIdle /\ SseIdle /\ ChanIdle /\ NormIdle /\ GroupIdle /\ SiteIdle

SpecCrawl == CrawlInit /\ [][CrawlNext]_vars

(***************************************************************************)
(* WebCrawler: reference traversal used by the properties.                 *)
(***************************************************************************)
\* links the site served for u with status 200, as the crawl observed them
ObservedLinks(u) ==
    IF u \in DOMAIN pages /\ pages[u].status_code = 200
    THEN pages[u].internal_links ELSE <<>>

\* textbook one-at-a-time breadth-first discovery, without any page cap:
\* st = [q, disc], disc the discovery order of <<url, depth>>
RECURSIVE RefAdd(_, _, _)
RefAdd(links, d, st) ==
    IF links = <<>> THEN st
    ELSE LET n == _normalize_url(Head(links))
         IN  IF _is_valid_url(n) /\ \A k \in 1..Len(st.disc) : st.disc[k][1] # n
             THEN RefAdd(Tail(links), d,
                         [q |-> Append(st.q, <<n, d + 1>>),
                          disc |-> Append(st.disc, <<n, d + 1>>)])
             ELSE RefAdd(Tail(links), d, st)

RECURSIVE RefBfs(_)
RefBfs(st) ==
    IF st.q = <<>> THEN st.disc
    ELSE LET h == Head(st.q)
         IN  RefBfs(RefAdd(ObservedLinks(h[1]), h[2],
                           [q |-> Tail(st.q), disc |-> st.disc]))

RefDiscovery == RefBfs([q |-> << <<start_url, 0>> >>, disc |-> << <<start_url, 0>> >>])

RefFirstN ==
    LET disc == RefDiscovery
    IN  SubSeq(disc, 1, Min(max_pages, Len(disc)))

EnqueuedEntries == [i \in 1..Len(enqueued) |-> <<enqueued[i].url, enqueued[i].depth>>]

DequeuedUrls == {dequeued[i][1] : i \in 1..Len(dequeued)}

FailedOutcomes == {"failed"}

(***************************************************************************)
(* WebCrawler: properties.                                                 *)
(***************************************************************************)
\* C1: the depths of the entries dequeued from the frontier are
\* non-decreasing over the whole crawl: an entry of smaller depth is never
\* dequeued after an entry of larger depth.
C1_DequeueDepthsNonDecreasing ==
    \A i, j \in 1..Len(dequeued) : i < j => dequeued[i][2] <= dequeued[j][2]

\* three levels were dequeued, two entries at once in some batch
C1_Witness ==
    /\ crawl_pc = "done"
    /\ parallel_requests = 2
    /\ \E i, j, k \in 1..Len(dequeued) :
          dequeued[i][2] = 0 /\ dequeued[j][2] = 1 /\ dequeued[k][2] = 2

\* C2: no normalized URL is appended to the frontier more than once, and
\* the visited set never holds more than max_pages URLs.
C2_NoDoubleEnqueueAndCap ==
    /\ \A i, j \in 1..Len(enqueued) : enqueued[i].url = enqueued[j].url => i = j
    /\ IsInjective(queue)
    /\ Cardinality(visited) <= max_pages

\* two fetched pages link to the same valid URL and the cap was reached
C2_Witness ==
    /\ crawl_pc = "done"
    /\ Cardinality(visited) = max_pages
    /\ \E u, v \in DOMAIN pages :
          /\ u # v
          /\ pages[u].status_code = 200 /\ pages[v].status_code = 200
          /\ \E l \in Range(pages[u].internal_links) \cap Range(pages[v].internal_links) :
                l \in visited

\* C3: when the crawl ends, the URLs it enqueued and fetched are exactly
\* the first max_pages URLs of the breadth-first discovery order from the
\* seed (all of them when fewer exist), each at its discovery depth;
\* nothing discovered after the cap was reached is enqueued or fetched.
C3_FirstNBreadthFirst ==
    crawl_pc = "done" =>
        LET ref == RefFirstN
        IN  /\ EnqueuedEntries = ref
            /\ Range(dequeued) = Range(ref)
            /\ visited = {ref[i][1] : i \in 1..Len(ref)}
            /\ \A u \in DOMAIN pages : <<u, pages[u].depth>> \in Range(ref)

\* the scenario: A -> B, C; B -> D; page cap 3
C3_Witness ==
    /\ crawl_pc = "done"
    /\ max_pages = 3
    /\ DOMAIN pages = {PageA, PageB, PageC}
    /\ pages[PageA].internal_links = <<PageP, PageB, PageC>>
    /\ pages[PageB].internal_links = <<PageP, PageD>>
    /\ pages[PageA].depth = 0 /\ pages[PageB].depth = 1 /\ pages[PageC].depth = 1
    /\ PageD \notin visited
    /\ PageD \notin DequeuedUrls

\* C4: a failed fetch (navigation error, timeout, no response) never aborts
\* the crawl: the page is stored with status 0, no link is enqueued from
\* it, and when the crawl ends every URL that entered the frontier has
\* been fetched.
C4_FailureDoesNotAbort ==
    /\ crawl_pc # "raised"
    /\ \A u \in DOMAIN pages :
          outcome_of[u] \in FailedOutcomes =>
              /\ pages[u].status_code = 0
              /\ \A i \in 1..Len(enqueued) : enqueued[i].parent # u
    /\ crawl_pc = "done" =>
          /\ queue = <<>>
          /\ \A i \in 1..Len(enqueued) :
                enqueued[i].url \in DequeuedUrls \cap DOMAIN outcome_of
          /\ \A u \in DOMAIN outcome_of :
                outcome_of[u] \in FailedOutcomes => u \in DOMAIN pages

\* a fetch failed and a URL that was in the frontier at that time was
\* fetched successfully afterwards
C4_Witness ==
    /\ crawl_pc = "done"
    /\ \E i, j \in 1..Len(dequeued) :
          /\ i < j
          /\ outcome_of[dequeued[i][1]] = "failed"
          /\ outcome_of[dequeued[j][1]] = "ok"
          /\ dequeued[j][1] \in DOMAIN pages
          /\ Len(pages[dequeued[j][1]].internal_links) > 1

\* C5 as stated: every fetch, a non-HTML response included, leaves a record
\* of the requested URL in the result map, with status 0 unless it
\* succeeded.
C5_EveryFetchStored ==
    crawl_pc = "done" =>
        \A u \in DOMAIN outcome_of :
            /\ u \in DOMAIN pages
            /\ outcome_of[u] \in FailedOutcomes \cup {"non_html"} =>
                   pages[u].status_code = 0

\* C5 amended: _fetch_page never raises into the crawl loop; a response
\* yields a populated record of the requested URL, a navigation error, a
\* timeout or a missing response yields a status-0 placeholder, both stored
\* in the result map; a non-HTML response yields None and nothing is stored.
C5_DefiniteOutcome ==
    /\ crawl_pc # "raised"
    /\ \A i \in 1..Len(results) : results[i].kind # "RAISE"
    /\ crawl_pc = "done" =>
          \A u \in DOMAIN outcome_of :
              CASE outcome_of[u] = "ok" ->
                       u \in DOMAIN pages /\ pages[u].url = u
                                          /\ pages[u].status_code = 200
                [] outcome_of[u] = "http_error" ->
                       u \in DOMAIN pages /\ pages[u].url = u
                                          /\ pages[u].status_code \notin {0, 200}
                [] outcome_of[u] \in FailedOutcomes ->
                       u \in DOMAIN pages /\ pages[u].url = u
                                          /\ pages[u].status_code = 0
                                          /\ pages[u].internal_links = <<>>
                [] outcome_of[u] = "non_html" -> u \notin DOMAIN pages

\* one crawl saw a non-HTML response, a failed navigation and a success
C5_Witness ==
    /\ crawl_pc = "done"
    /\ \E u, v, w \in DOMAIN outcome_of :
          /\ outcome_of[u] = "non_html"
          /\ outcome_of[v] \in FailedOutcomes
          /\ outcome_of[w] = "ok"

\* every task the event loop holds is resumed in the end, and every fetch
\* gets its answer or its timeout
FairSpecCrawl == SpecCrawl /\ WF_vars(CrawlNext)

\* C23: every crawl ends: the loop is left, with the frontier empty or the
\* page cap reached, and never more than max_pages URLs were fetched.
C23_CrawlTerminates ==
    /\ <>(crawl_pc = "done")
    /\ [](crawl_pc = "done" =>
             queue = <<>> \/ Cardinality(DOMAIN pages) >= max_pages)
    /\ [](Len(dequeued) <= max_pages)

\* the crawl of a cyclic link graph ended at the page cap, after max_pages
\* fetches: two fetched pages link to each other
C23_Witness ==
    /\ crawl_pc = "done"
    /\ Cardinality(DOMAIN pages) = max_pages
    /\ Len(dequeued) = max_pages
    /\ \E u, v \in DOMAIN pages :
          /\ u # v
          /\ v \in Range(pages[u].internal_links)
          /\ u \in Range(pages[v].internal_links)

\* the fetches of the current batch that hold a permit
InFlight == {i \in 1..Len(results) : results[i].state = "running"}

\* C26: never more than parallel_requests fetches are in flight, each of
\* them holding one permit and one open browser page; when all tasks of a
\* batch are done, and whenever the crawl is outside gather, every page
\* is closed and every permit is back, whatever the outcomes were.
C26_BoundedFetchesAllClosed ==
    /\ Cardinality(InFlight) <= parallel_requests
    /\ permits >= 0
    /\ crawl_pc # "idle" => permits = parallel_requests - Cardinality(open_pages)
    /\ crawl_pc = "gather" =>
          open_pages = {batch[i][1] : i \in InFlight}
    /\ (crawl_pc # "gather" \/ GatherDone) =>
          open_pages = {} /\ (crawl_pc # "idle" => permits = parallel_requests)

\* a batch of two was joined, one of its fetches having failed on an
\* exception or a missing response, the other having returned None
C26_Witness ==
    /\ crawl_pc = "gather"
    /\ GatherDone
    /\ Len(batch) = 2
    /\ open_pages = {}
    /\ permits = parallel_requests
    /\ \E i, j \in 1..2 :
          /\ outcome_of[batch[i][1]] = "failed"
          /\ outcome_of[batch[j][1]] = "non_html"

(***************************************************************************)
(* run_audit: the analyzer scheduler (app/main.py).                        *)
(***************************************************************************)
AnalyzerPermits == 10    \* _analyzer_semaphore = asyncio.Semaphore(10)
MaxUnits        == 2     \* at most MaxUnits units other than "speed" are selected

\* keys of ALL_ANALYZERS other than "speed", in registry order
NonSpeedNames ==
    <<"cms", "meta_tags", "headings", "page_404", "images", "content",
      "links", "favicon", "external_links", "robots", "structure",
      "content_sections", "schema", "social_tags", "security", "mobile",
      "url_quality", "hreflang", "duplicates", "redirects">>

\* how "await asyncio.wait_for(analyzer.analyze(...))" can end
UnitOutcomes == {"ok", "returns_none", "timeout", "error"}

\* how the early speed task can end
SpeedOutcomes == {"ok", "timeout", "error"}

\* variant: asyncio.TimeoutError is not caught in run_single_analyzer
NameResult_TimeoutEscapes(name, outcome) ==
    CASE outcome = "ok"           -> [kind |-> "tuple", name |-> name, result |-> "result"]
      [] outcome = "returns_none" -> [kind |-> "tuple", name |-> name, result |-> "None"]
      [] outcome = "timeout"      -> [kind |-> "exception", name |-> name, result |-> "None"]
      [] outcome = "error"        -> [kind |-> "tuple", name |-> name, result |-> "None"]

\* run_single_analyzer, the try/except around analyze: the item gather
\* collects for the task
NameResult(name, outcome) ==
    CASE outcome = "ok"           -> [kind |-> "tuple", name |-> name, result |-> "result"]
      [] outcome = "returns_none" -> [kind |-> "tuple", name |-> name, result |-> "None"]
      [] outcome = "timeout"      -> [kind |-> "tuple", name |-> name, result |-> "None"]
      [] outcome = "error"        -> [kind |-> "tuple", name |-> name, result |-> "None"]

NoResults == [results |-> <<>>, successful |-> <<>>, failed |-> <<>>]

\* variant: a None result is stored like any other
ProcessItem_KeepsNone(item, acc) ==
    IF item.kind = "exception"
    THEN [acc EXCEPT !.failed = Append(@, "unknown")]
    ELSE IF item.result # "None"
         THEN [acc EXCEPT !.results = (item.name :> item.result) @@ @,
                          !.successful = Append(@, item.name)]
         ELSE [acc EXCEPT !.results = (item.name :> item.result) @@ @,
                          !.failed = Append(@, item.name)]

\* body of "for item in analyzer_results"
ProcessItem(item, acc) ==
    IF item.kind = "exception"
    THEN [acc EXCEPT !.failed = Append(@, "unknown")]
    ELSE IF item.result # "None"
         THEN [acc EXCEPT !.results = (item.name :> item.result) @@ @,
                          !.successful = Append(@, item.name)]
         ELSE [acc EXCEPT !.failed = Append(@, item.name)]

RECURSIVE ProcessResults(_, _)
ProcessResults(items, acc) ==
    IF items = <<>> THEN acc
    ELSE ProcessResults(Tail(items), ProcessItem(Head(items), acc))

\* "Collect early-started Speed Analyzer result": await speed_task
CollectSpeed(task, acc) ==
    IF task = "ok"
    THEN [acc EXCEPT !.results = ("speed" :> "result") @@ @,
                     !.successful = Append(@, "speed")]
    ELSE [acc EXCEPT !.failed = Append(@, "speed"),
                     !.results = ("speed" :> "error_placeholder") @@ @]

SpeedTaskDone(task) == task \notin {"none", "running"}

\* completed_total(), its side effect on speed_completed[0]
SpeedCompletedSeen(flag, task) == flag \/ SpeedTaskDone(task)

\* the gather items of the finished tasks, in task order
AnalyzerItems ==
    [i \in 1..Len(non_speed_selected) |->
        NameResult(non_speed_selected[i], unit_outcome[i])]

\* "await asyncio.gather(*analyzer_tasks, ...)" returns when every task has
AllUnitsFinished ==
    \A i \in 1..Len(unit_state) : unit_state[i] = "finished"

SomeUnitWaits ==
    /\ analyzer_permits = 0
    /\ \E i \in 1..Len(unit_state) : unit_state[i] = "pending"

MaxCrawlYield == 1    \* the crawler yields at most MaxCrawlYield pages

selectionVars == <<non_speed_selected, speed_selected>>
unitVars      == <<unit_state, unit_outcome, analyzer_permits, other_holders,
                   completed_non_speed, running_analyzers, sem_waited>>
resultVars    == <<audit_results, successful_analyzers, failed_analyzers>>
pageVars      == <<pages_dict, audit_pages_set, crawl_timed_out, pages_crawled>>

\* a ProgressEvent, reduced to its status and its analyzers_completed
ProgressEvent(status, analyzers_completed) ==
    [status |-> status, analyzers_completed |-> analyzers_completed]

NoEvent == ProgressEvent("none", 0)

\* analyzers_total
analyzers_total ==
    Len(non_speed_selected) + (IF speed_selected THEN 1 ELSE 0)

\* completed_total(), its value once speed_completed[0] is brought up to date
completed_total(non_speed_done, speed_flag) ==
    non_speed_done + (IF speed_flag THEN 1 ELSE 0)

\* PageData.clear_cache: html_content and the soup cache are dropped
clear_cache(page) == "cleared"

\* "for page in pages.values(): page.clear_cache()"
ClearAll(dict) == [k \in DOMAIN dict |-> clear_cache(dict[k])]

\* what audit.pages holds: the default, or run_audit's pages dict
AuditPages == IF audit_pages_set THEN pages_dict ELSE <<>>

\* variant: the caches are cleared but the records stay in audit.pages
FailureCleanup_KeepsRecords(bound, dict) ==
    IF bound /\ dict # <<>> THEN ClearAll(dict) ELSE dict

\* "except Exception" of run_audit, "Cleanup: free memory from pages"
FailureCleanup(bound, dict) ==
    IF bound /\ dict # <<>> THEN <<>> ELSE dict

\* n emit_progress calls of run_audit in a row, the last with the given
\* status, while the speed task is as given and non_speed_done units other
\* than speed have finished
Emits(status, task, non_speed_done, n) ==
    /\ speed_completed' = SpeedCompletedSeen(speed_completed, task)
    /\ last_event' = ProgressEvent(status,
                        completed_total(non_speed_done,
                                        SpeedCompletedSeen(speed_completed, task)))
    /\ events_emitted' = events_emitted + n

\* variant: the handler records the failure without emitting its event
HandlesFailure_Silent ==
    /\ audit_pc' = "failed"
    /\ audit_status' = "failed"
    /\ pages_dict' = FailureCleanup(audit_pages_set, pages_dict)
    /\ UNCHANGED <<speed_completed, last_event, events_emitted>>

\* the "except Exception" handler of run_audit
HandlesFailure ==
    /\ audit_pc' = "failed"
    /\ audit_status' = "failed"
    /\ pages_dict' = FailureCleanup(audit_pages_set, pages_dict)
    /\ Emits("failed", speed_task, completed_non_speed, 1)

AuditCreated ==
    /\ non_speed_selected \in {SubSeq(NonSpeedNames, 1, n) : n \in 0..MaxUnits}
    /\ speed_selected \in BOOLEAN
    /\ non_speed_selected = <<>> => speed_selected
    /\ audit_pc = "start"
    /\ audit_status = "pending"
    /\ speed_task = "none"
    /\ unit_state = [i \in 1..Len(non_speed_selected) |-> "pending"]
    /\ unit_outcome = [i \in 1..Len(non_speed_selected) |-> "pending"]
    /\ other_holders \in 0..AnalyzerPermits
    /\ analyzer_permits = AnalyzerPermits - other_holders
    /\ completed_non_speed = 0
    /\ speed_completed = ~speed_selected
    /\ running_analyzers = {}
    /\ audit_results = <<>>
    /\ successful_analyzers = <<>>
    /\ failed_analyzers = <<>>
    /\ sem_waited = FALSE
    /\ pages_dict = <<>>
    /\ audit_pages_set = FALSE
    /\ crawl_timed_out = FALSE
    /\ pages_crawled = 0
    /\ last_event = NoEvent
    /\ events_emitted = 0

\* run_audit up to its first await: the speed task is created; unless the
\* audit is speed-only the crawl phase starts with its first event
AuditBegin ==
    /\ audit_pc = "start"
    /\ speed_task' = IF speed_selected THEN "running" ELSE "none"
    /\ IF speed_selected /\ non_speed_selected = <<>>
       THEN /\ audit_pc' = "analysis"
            /\ UNCHANGED <<audit_status, speed_completed, last_event, events_emitted>>
       ELSE /\ audit_pc' = "crawling"
            /\ audit_status' = "crawling"
            /\ Emits("crawling", "running", completed_non_speed, 1)
    /\ UNCHANGED <<selectionVars, unitVars, resultVars, pageVars>>
    /\ UNCHANGED notAuditVars

\* the crawler hands over one more page: progress_callback emits its event
\* and "pages[page.url] = page" stores the record
CrawlYield ==
    /\ audit_pc = "crawling"
    /\ Len(pages_dict) < MaxCrawlYield
    /\ pages_dict' = Append(pages_dict, "cached")
    /\ Emits("crawling", speed_task, completed_non_speed, 1)
    /\ UNCHANGED <<selectionVars, unitVars, resultVars, audit_pc, audit_status,
                   speed_task, audit_pages_set, crawl_timed_out, pages_crawled>>
    /\ UNCHANGED notAuditVars

\* variant: the expiry of the crawl deadline is not caught
CrawlEscapes_TimeoutEscapes(outcome) == outcome \in {"error", "timeout"}

\* "except TimeoutError" around the crawl loop: which way of ending the loop
\* escapes to "except Exception"
CrawlEscapes(outcome) == outcome = "error"

\* the crawl phase ends: the generator is exhausted, the deadline of
\* asyncio.timeout expires, or another exception is raised; what is not an
\* escaping exception binds audit.pages and emits "crawling complete"
CrawlPhase ==
    /\ audit_pc = "crawling"
    /\ \E outcome \in {"exhausted", "timeout", "error"} :
          /\ crawl_timed_out' = (outcome = "timeout")
          /\ IF CrawlEscapes(outcome)
             THEN /\ HandlesFailure
                  /\ UNCHANGED <<audit_pages_set, pages_crawled>>
             ELSE /\ audit_pc' = "analysis"
                  /\ pages_crawled' = Len(pages_dict)
                  /\ audit_pages_set' = TRUE
                  /\ Emits("crawling", speed_task, completed_non_speed, 1)
                  /\ UNCHANGED <<audit_status, pages_dict>>
    /\ UNCHANGED <<selectionVars, unitVars, resultVars, speed_task>>
    /\ UNCHANGED notAuditVars

\* "Phase 2: Analysis" up to "await asyncio.gather(*analyzer_tasks)"; an
\* exception there (building the analyzers) goes to "except Exception"
AnalysisStart ==
    /\ audit_pc = "analysis"
    /\ \E outcome \in {"ok", "error"} :
          IF outcome = "error"
          THEN HandlesFailure
          ELSE /\ audit_status' = "analyzing"
               /\ audit_pc' = "gather"
               /\ Emits("analyzing", speed_task, completed_non_speed, 1)
               /\ UNCHANGED pages_dict
    /\ UNCHANGED <<selectionVars, unitVars, resultVars, speed_task,
                   audit_pages_set, crawl_timed_out, pages_crawled>>
    /\ UNCHANGED notAuditVars

\* run_single_analyzer up to "await asyncio.wait_for(analyzer.analyze...)":
\* the permit is taken (waiters are served in task order) and the
\* "running" event is emitted
UnitStart(i) ==
    /\ audit_pc = "gather"
    /\ i \in 1..Len(unit_state)
    /\ unit_state[i] = "pending"
    /\ \A j \in 1..(i - 1) : unit_state[j] # "pending"
    /\ analyzer_permits > 0
    /\ analyzer_permits' = analyzer_permits - 1
    /\ unit_state' = [unit_state EXCEPT ![i] = "running"]
    /\ running_analyzers' = running_analyzers \cup {non_speed_selected[i]}
    /\ Emits("analyzing", speed_task, completed_non_speed, 1)
    /\ UNCHANGED <<selectionVars, resultVars, pageVars, audit_pc, audit_status,
                   speed_task, unit_outcome, other_holders,
                   completed_non_speed, sem_waited>>
    /\ UNCHANGED notAuditVars

\* run_single_analyzer from the end of wait_for to its return: outcome
\* mapped to name_result, counters updated, "completed" event emitted,
\* permit returned
UnitFinish(i) ==
    /\ audit_pc = "gather"
    /\ i \in 1..Len(unit_state)
    /\ unit_state[i] = "running"
    /\ \E outcome \in UnitOutcomes :
          unit_outcome' = [unit_outcome EXCEPT ![i] = outcome]
    /\ unit_state' = [unit_state EXCEPT ![i] = "finished"]
    /\ running_analyzers' = running_analyzers \ {non_speed_selected[i]}
    /\ completed_non_speed' = completed_non_speed + 1
    /\ Emits("analyzing", speed_task, completed_non_speed + 1, 1)
    /\ analyzer_permits' = analyzer_permits + 1
    /\ sem_waited' = (sem_waited \/ SomeUnitWaits)
    /\ UNCHANGED <<selectionVars, resultVars, pageVars, audit_pc, audit_status,
                   speed_task, other_holders>>
    /\ UNCHANGED notAuditVars

\* a unit of another audit returns its permit while a unit of this audit
\* waits for one (returns that nobody waits for are not observable here)
OtherUnitReturns ==
    /\ audit_pc = "gather"
    /\ other_holders > 0
    /\ SomeUnitWaits
    /\ other_holders' = other_holders - 1
    /\ analyzer_permits' = analyzer_permits + 1
    /\ sem_waited' = TRUE
    /\ UNCHANGED <<selectionVars, resultVars, pageVars, audit_pc, audit_status,
                   speed_task, unit_state, unit_outcome, completed_non_speed,
                   speed_completed, running_analyzers, last_event,
                   events_emitted>>
    /\ UNCHANGED notAuditVars

\* from "audit.results = results" to "await generator.generate(audit)":
\* the page caches are cleared and GENERATING_REPORT is emitted after
\* earlier emits of the same stretch
StartsReport(task, earlier) ==
    /\ audit_pc' = "report"
    /\ audit_status' = "generating_report"
    /\ pages_dict' = ClearAll(pages_dict)
    /\ Emits("generating_report", task, completed_non_speed, earlier + 1)

\* gather returns: the items are sorted into results and failures; an
\* event announces a speed task that is still running; without a speed
\* task the analysis phase ends here
GatherReturn ==
    /\ audit_pc = "gather"
    /\ AllUnitsFinished
    /\ LET acc == ProcessResults(AnalyzerItems, NoResults)
       IN  /\ audit_results' = acc.results
           /\ successful_analyzers' = acc.successful
           /\ failed_analyzers' = acc.failed
    /\ IF speed_task = "none"
       THEN StartsReport(speed_task, 0)
       ELSE /\ audit_pc' = "join_speed"
            /\ IF speed_task = "running"
               THEN Emits("analyzing", speed_task, completed_non_speed, 1)
               ELSE UNCHANGED <<speed_completed, last_event, events_emitted>>
            /\ UNCHANGED <<audit_status, pages_dict>>
    /\ UNCHANGED <<selectionVars, unitVars, speed_task, audit_pages_set,
                   crawl_timed_out, pages_crawled>>
    /\ UNCHANGED notAuditVars

\* the early speed task ends: result, 600 s deadline, or exception
SpeedFinish ==
    /\ speed_task = "running"
    /\ speed_task' \in SpeedOutcomes
    /\ UNCHANGED <<selectionVars, unitVars, resultVars, pageVars, audit_pc,
                   audit_status, speed_completed, last_event, events_emitted>>
    /\ UNCHANGED notAuditVars

\* variant: the speed task is awaited before the gather of the other units
SpeedJoinPoint_BeforeGather(pc) == pc \in {"gather", "join_speed"}

\* where run_audit awaits the speed task: after the gather and its results
SpeedJoinPoint(pc) == pc = "join_speed"

\* "await speed_task" returns (an event reports the speed unit completed)
\* or raises; the analysis phase ends
JoinSpeed ==
    /\ SpeedJoinPoint(audit_pc)
    /\ SpeedTaskDone(speed_task)
    /\ LET acc == CollectSpeed(speed_task,
                      [results |-> audit_results,
                       successful |-> successful_analyzers,
                       failed |-> failed_analyzers])
       IN  /\ audit_results' = acc.results
           /\ successful_analyzers' = acc.successful
           /\ failed_analyzers' = acc.failed
    /\ StartsReport(speed_task, IF speed_task = "ok" THEN 1 ELSE 0)
    /\ UNCHANGED <<selectionVars, unitVars, speed_task, audit_pages_set,
                   crawl_timed_out, pages_crawled>>
    /\ UNCHANGED notAuditVars

\* "await generator.generate(audit)" returns, and COMPLETED is emitted, or
\* it raises to "except Exception"
Report ==
    /\ audit_pc = "report"
    /\ \E outcome \in {"ok", "error"} :
          IF outcome = "ok"
          THEN /\ audit_pc' = "completed"
               /\ audit_status' = "completed"
               /\ Emits("completed", speed_task, completed_non_speed, 1)
               /\ UNCHANGED pages_dict
          ELSE HandlesFailure
    /\ UNCHANGED <<selectionVars, unitVars, resultVars, speed_task,
                   audit_pages_set, crawl_timed_out, pages_crawled>>
    /\ UNCHANGED notAuditVars

AuditNext ==
    \/ AuditBegin
    \/ CrawlYield
    \/ CrawlPhase
    \/ AnalysisStart
    \/ \E i \in 1..Len(unit_state) : UnitStart(i)
    \/ \E i \in 1..Len(unit_state) : UnitFinish(i)
    \/ OtherUnitReturns
    \/ GatherReturn
    \/ SpeedFinish
    \/ JoinSpeed
    \/ Report

AuditInit == AuditCreated /\ CrawlIdle /\ DupIdle /\ SseIdle /\ ChanIdle /\ NormIdle /\ GroupIdle /\ SiteIdle

SpecAudit == AuditInit /\ [][AuditNext]_vars

\* every awaited operation ends: analyze and the speed task by their
\* wait_for deadlines, the crawl by asyncio.timeout, the units of other
\* audits by their own deadlines
FairSpecAudit == SpecAudit /\ WF_vars(AuditNext)

(***************************************************************************)
(* Properties of the analyzer scheduler.                                   *)
(***************************************************************************)
SelectedUnits == 1..Len(non_speed_selected)

\* gather has returned and its items have been sorted
SchedulerReturned == audit_pc \in {"join_speed", "report", "completed"}

\* the analysis phase is over, the speed task included
SchedulerFinished == audit_pc \in {"report", "completed"}

FailedUnitOutcomes == {"timeout", "error"}

\* C6: a unit that times out or raises does not keep any other unit from
\* its result: once gather has returned, every unit that succeeded has its
\* result in the map, every unit that timed out or raised is named in the
\* failure list and has no result, and once the units have been handed to
\* gather the scheduler always gets past gather and the speed join, whatever
\* the number of units relative to the free permits of the semaphore.
C6_FailingUnitIsolated ==
    /\ [](SchedulerReturned =>
            \A i \in SelectedUnits :
                /\ unit_outcome[i] = "ok" =>
                      /\ non_speed_selected[i] \in DOMAIN audit_results
                      /\ audit_results[non_speed_selected[i]] = "result"
                /\ unit_outcome[i] \in FailedUnitOutcomes =>
                      /\ non_speed_selected[i] \in Range(failed_analyzers)
                      /\ non_speed_selected[i] \notin DOMAIN audit_results)
    /\ (audit_pc = "gather") ~> (audit_pc \in {"report", "completed", "failed"})

\* a unit timed out, another one succeeded after some unit had to wait for
\* a permit, and the audit completed
C6_Witness ==
    /\ audit_pc = "completed"
    /\ sem_waited
    /\ \E i, j \in SelectedUnits :
          /\ unit_outcome[i] = "timeout"
          /\ unit_outcome[j] = "ok"
          /\ non_speed_selected[j] \in DOMAIN audit_results
          /\ non_speed_selected[i] \in Range(failed_analyzers)

SelectedNames ==
    Range(non_speed_selected) \cup (IF speed_selected THEN {"speed"} ELSE {})

\* C7 as stated: when the scheduler has finished every selected unit, the
\* speed unit included, is either a key of the result map or an entry of
\* the failure list, never both and never neither.
C7_ExactlyOneOutcome ==
    SchedulerFinished =>
        \A u \in SelectedNames :
            (u \in DOMAIN audit_results) # (u \in Range(failed_analyzers))

\* C7 amended: when the scheduler has finished, every selected unit other
\* than speed is either a key of the result map (it succeeded) or an entry
\* of the failure list (it timed out, raised or returned nothing), never
\* both and never neither; the speed unit, when selected, is always a key
\* of the result map, and it is in the failure list exactly when it timed
\* out or raised, its map entry then being the error placeholder; no name
\* is listed twice and nothing else is listed.
C7_OneOutcomeExceptSpeed ==
    SchedulerFinished =>
        /\ \A i \in SelectedUnits :
              LET u == non_speed_selected[i]
              IN  /\ (u \in DOMAIN audit_results) # (u \in Range(failed_analyzers))
                  /\ (u \in DOMAIN audit_results) <=> (unit_outcome[i] = "ok")
                  /\ (u \in DOMAIN audit_results) <=> (u \in Range(successful_analyzers))
        /\ speed_selected =>
              /\ "speed" \in DOMAIN audit_results
              /\ ("speed" \in Range(failed_analyzers)) <=>
                     (speed_task \in FailedUnitOutcomes)
              /\ ("speed" \in Range(failed_analyzers)) <=>
                     (audit_results["speed"] = "error_placeholder")
              /\ ("speed" \in Range(successful_analyzers)) <=>
                     (audit_results["speed"] = "result")
        /\ DOMAIN audit_results \cup Range(failed_analyzers) = SelectedNames
        /\ IsInjective(failed_analyzers)
        /\ IsInjective(successful_analyzers)

\* the audit completed with the speed unit timed out, one other unit failed
\* and one other unit successful
C7_Witness ==
    /\ audit_pc = "completed"
    /\ speed_selected
    /\ speed_task = "timeout"
    /\ "speed" \in DOMAIN audit_results
    /\ "speed" \in Range(failed_analyzers)
    /\ \E i, j \in SelectedUnits :
          /\ unit_outcome[i] \in FailedUnitOutcomes
          /\ unit_outcome[j] = "ok"

C14_FailureReleasesAndReports ==
    audit_status = "failed" =>
        /\ audit_pc = "failed"
        /\ last_event.status = "failed"
        /\ AuditPages = <<>>

\* a failure after a crawl that had bound MaxCrawlYield pages to the audit
C14_Witness ==
    /\ audit_status = "failed"
    /\ audit_pages_set
    /\ pages_crawled = MaxCrawlYield

\* ---------------------------------------------------------------------
\* C16: when the speed unit is selected its task exists from the first
\* step of run_audit on, that is before and during the crawl and the other
\* units; the audit waits for it ("await speed_task") and records its
\* result only when every other selected unit has an outcome.
C16_SpeedEarlyAndJoinedLast ==
    speed_selected =>
        /\ audit_pc # "start" => speed_task # "none"
        /\ audit_pc \in {"start", "crawling", "analysis"} =>
              "speed" \notin DOMAIN audit_results
        /\ (audit_pc = "join_speed" \/ "speed" \in DOMAIN audit_results) =>
              \A i \in 1..Len(non_speed_selected) : unit_outcome[i] # "pending"

\* the audit waits for a speed task that has been running through the
\* crawl and MaxUnits other units
C16_Witness ==
    /\ audit_pc = "join_speed"
    /\ speed_task = "running"
    /\ pages_crawled = MaxCrawlYield
    /\ Len(non_speed_selected) = MaxUnits
    /\ \A i \in 1..Len(non_speed_selected) : unit_outcome[i] # "pending"

\* ---------------------------------------------------------------------
\* C17: in every emitted event analyzers_completed is the number of
\* selected units that have an outcome at that moment (the speed unit has
\* one once its task is done), it is at most analyzers_total, and it is not
\* smaller than in the event before.
C17_CompletedCountsOutcomes ==
    [][events_emitted' # events_emitted =>
          /\ last_event'.analyzers_completed =
                Cardinality({i \in 1..Len(non_speed_selected) :
                                unit_outcome'[i] # "pending"})
                + (IF speed_selected /\ SpeedTaskDone(speed_task') THEN 1 ELSE 0)
          /\ last_event'.analyzers_completed <= analyzers_total
          /\ last_event'.analyzers_completed >= last_event.analyzers_completed]_vars

\* the analyzer units executing analyze: those inside the semaphore, of
\* this audit and of the other audits of the process, and the early speed
\* task of this audit
ExecutingUnits ==
    (AnalyzerPermits - analyzer_permits)
        + (IF speed_task = "running" THEN 1 ELSE 0)

\* C25: at no time are more than 10 analyzer units executing, counting
\* the units of all audits and the early-started speed unit.
C25_AtMostTenUnitsExecuting ==
    audit_pc # "idle" => ExecutingUnits <= AnalyzerPermits

\* run_audit has ended: its terminal event was emitted
AuditEnded == audit_pc \in {"completed", "failed"}

\* C30: once run_audit has ended, with COMPLETED or with FAILED, no unit
\* of the audit is still running: the early speed task has finished or
\* was cancelled, and so have the other units.
C30_NoUnitRunsAfterEnd ==
    AuditEnded =>
        /\ speed_task # "running"
        /\ \A i \in 1..Len(unit_state) : unit_state[i] # "running"

\* the raw content of page k is dropped by this step: its record is
\* cleared or removed
ContentCleared(k) ==
    /\ k \in DOMAIN pages_dict
    /\ pages_dict[k] = "cached"
    /\ k \notin DOMAIN pages_dict' \/ pages_dict'[k] = "cleared"

\* some unit of the audit is executing analyze
SomeUnitRuns ==
    \/ speed_task = "running"
    \/ \E i \in 1..Len(unit_state) : unit_state[i] = "running"

\* C27: page content is cleared only when no unit of the audit, the early
\* speed unit included, is still on its way to its outcome; a cleared
\* record never gets its content back and no content is stored after the
\* clearing; no unit other than speed, which is given no pages, is running
\* while a record is cleared.
C27_ClearedAfterAllUnits ==
    [][ /\ (\E k \in DOMAIN pages_dict : ContentCleared(k)) => ~SomeUnitRuns
        /\ \A k \in DOMAIN pages_dict :
              (pages_dict[k] = "cleared" /\ k \in DOMAIN pages_dict')
                 => pages_dict'[k] = "cleared"
        /\ audit_pc \in {"report", "completed", "failed"} =>
              \A k \in DOMAIN pages_dict' :
                  pages_dict'[k] = "cached" =>
                     k \in DOMAIN pages_dict /\ pages_dict[k] = "cached"
        /\ (\E k \in DOMAIN pages_dict' : pages_dict'[k] = "cleared") =>
              \A i \in 1..Len(unit_state) : unit_state'[i] # "running"
      ]_vars

TerminalStatuses == {"completed", "failed"}

\* C29: every run of run_audit emits a terminal event, COMPLETED or
\* FAILED, and only one: no event before it carries a terminal status, no
\* event follows it, so it stays the last event broadcast and stored, and
\* audit.status is that event's status from then on.
C29_OneTerminalEventLast ==
    /\ <>AuditEnded
    /\ [](AuditEnded =>
             /\ last_event.status \in TerminalStatuses
             /\ audit_status = last_event.status)
    /\ [](~AuditEnded =>
             /\ last_event.status \notin TerminalStatuses
             /\ audit_status \notin TerminalStatuses)
    /\ [][AuditEnded =>
             UNCHANGED <<last_event, events_emitted, audit_status, audit_pc>>]_vars

\* the audit failed after its crawl and emitted FAILED as the last of at
\* least four events, and the speed task ended on its own afterwards or
\* before
C29_Witness ==
    /\ audit_pc = "failed"
    /\ audit_pages_set
    /\ last_event.status = "failed"
    /\ audit_status = "failed"
    /\ events_emitted >= 4
    /\ speed_task = "error"

(***************************************************************************)
(* DuplicatesAnalyzer (app/analyzers/duplicates.py).                       *)
(***************************************************************************)
MaxDupPages   == 3   \* the analyzer is given 1..MaxDupPages crawled pages
MaxCanonicals == 1   \* at most MaxCanonicals of them declare a canonical link

_MIN_WORDS                   == 80
_MIN_LENGTH_RATIO            == 70     \* 0.70, in hundredths
_MINHASH_CANDIDATE_THRESHOLD == 85     \* 0.85, in hundredths
_NEAR_DUPLICATE_THRESHOLD    == 90     \* 0.90, in hundredths
num_hashes                   == 50
shingle_size                 == 3

_EXCLUDED_TAGS == {"script", "style", "noscript", "header", "footer", "nav", "aside"}

\* the alternatives of _BOILERPLATE_HINT_RE
BoilerplateHints ==
    {"menu", "nav", "header", "footer", "sidebar", "cookie", "banner",
     "popup", "modal", "subscribe", "breadcrumb"}

\* the hint words contained in the class names of the model
HintsIn ==
    [c \in {"", "content", "cookie-banner"} |->
        IF c = "cookie-banner" THEN {"cookie", "banner"} ELSE {}]

\* a text-bearing element below <body>: its tag, its class attribute and
\* its text, given as a word pattern and the number of its repetitions;
\* outer lists its ancestors below <body>, the nearest first
Node(tag, class, pattern, reps) ==
    [tag |-> tag, class |-> class, pattern |-> pattern, reps |-> reps,
     outer |-> <<>>]

\* the element, placed inside one more wrapper element
Inside(wrapper_tag, wrapper_class, node) ==
    [node EXCEPT !.outer = @ \o <<[tag |-> wrapper_tag, class |-> wrapper_class]>>]

\* soup.body
Body == Node("body", "", <<>>, 0)

RECURSIVE Repeat(_, _)
Repeat(pattern, reps) ==
    IF reps = 0 THEN <<>> ELSE pattern \o Repeat(pattern, reps - 1)

\* the words of a text node, lowercased
NodeWords(node) ==
    LET w == Repeat(node.pattern, node.reps)
    IN  [i \in 1..Len(w) |-> Lower(w[i])]

_is_boilerplate_node(node) ==
    IF node.class = "" THEN FALSE
    ELSE HintsIn[node.class] \cap BoilerplateHints # {}

\* the elements the loop visits: from the parent of the string upwards,
\* stopping at root (<body> carries no class and is not an excluded tag)
AncestorsUpTo(root, parent) ==
    IF parent = root THEN <<parent>> ELSE <<parent>> \o parent.outer

_should_skip_text_node(root, parent) ==
    \E i \in 1..Len(AncestorsUpTo(root, parent)) :
        LET ancestor == AncestorsUpTo(root, parent)[i]
        IN  \/ ancestor.tag \in _EXCLUDED_TAGS
            \/ _is_boilerplate_node(ancestor)

HasText(node) == node.reps > 0 /\ node.pattern # <<>>

RECURSIVE FirstWithTag(_, _)
FirstWithTag(doc, tag) ==
    IF doc = <<>> THEN <<>>
    ELSE IF Head(doc).tag = tag THEN <<Head(doc)>>
    ELSE FirstWithTag(Tail(doc), tag)

\* the chosen content root: soup.find looks through the whole document
_select_content_root(doc) ==
    LET main    == FirstWithTag(doc, "main")
        article == FirstWithTag(doc, "article")
    IN  IF main # <<>> /\ HasText(main[1]) THEN main[1]
        ELSE IF article # <<>> /\ HasText(article[1]) THEN article[1]
        ELSE Body

\* root.find_all(string=True): the parents of the strings below root
StringParents(root, doc) == IF root = Body THEN doc ELSE <<root>>

RECURSIVE JoinTexts(_, _)
JoinTexts(root, nodes) ==
    IF nodes = <<>> THEN <<>>
    ELSE (IF _should_skip_text_node(root, Head(nodes)) THEN <<>>
          ELSE NodeWords(Head(nodes))) \o JoinTexts(root, Tail(nodes))

\* the suppressed text, as its sequence of words
_extract_text(doc) ==
    LET root == _select_content_root(doc)
    IN  JoinTexts(root, StringParents(root, doc))

_create_shingles(words) ==
    IF Len(words) < shingle_size THEN {}
    ELSE {SubSeq(words, i, i + shingle_size - 1) :
              i \in 1..(Len(words) - shingle_size + 1)}

RECURSIVE BitXor(_, _)
BitXor(a, b) ==
    IF a = 0 THEN b
    ELSE IF b = 0 THEN a
    ELSE 2 * BitXor(a \div 2, b \div 2) + ((a + b) % 2)

WordCode == [w \in {"x", "y", "z"} |-> IF w = "x" THEN 1 ELSE IF w = "y" THEN 2 ELSE 3]

\* hash() of a 3-word tuple: one injective assignment of integers
hash(shingle) ==
    ((WordCode[shingle[1]] * 16 + WordCode[shingle[2]] * 4
        + WordCode[shingle[3]]) * 97) % 1021

SetMin(S) == CHOOSE m \in S : \A n \in S : m <= n

_create_minhash_signature(shingles) ==
    IF shingles = {} THEN [i \in 1..num_hashes |-> 0]
    ELSE [i \in 1..num_hashes |->
             SetMin({BitXor(hash(sh), i - 1) : sh \in shingles})]

\* matches / len(sig1), kept as the number of matches out of len(sig1)
_estimate_jaccard(sig1, sig2) ==
    IF sig1 = <<>> \/ sig2 = <<>> THEN 0
    ELSE Cardinality({i \in 1..Min(Len(sig1), Len(sig2)) : sig1[i] = sig2[i]})

\* DuplicatesAnalyzer._normalize_url
DuplicatesAnalyzer_normalize_url(u) ==
    [scheme   |-> u.scheme,
     netloc   |-> Lower(u.netloc),
     path     |-> IF urlparse_path(u) # <<"/">>
                  THEN RStripSlash(urlparse_path(u)) ELSE <<"/">>,
     query    |-> u.query,
     fragment |-> ""]

\* page.canonical of a page without <link rel="canonical">
NoCanonical == Url("", <<>>, "")

\* urljoin for an absolute URL and for an absolute-path reference
urljoin(base, href) ==
    IF href.scheme # "" THEN href
    ELSE [href EXCEPT !.scheme = base.scheme, !.netloc = base.netloc]

\* the keys of the pages dict, in insertion order
DupUrls == <<PageB, PageC, PageD, PageA,
             _normalize_url(Url("example.com", <<"/", "e">>, ""))>>

\* how a site author writes the canonical link to a page
CanonicalHref(target) ==
    IF target = PageB
    THEN [scheme |-> "", netloc |-> "", path |-> target.path \o <<"/">>,
          query |-> "", fragment |-> ""]
    ELSE Url("Example.COM", target.path, "")

DeclaredHrefs(n) == {CanonicalHref(DupUrls[i]) : i \in 1..n}

\* which pages declare a canonical link, and to which page
CanonicalChoices(n) ==
    UNION {[S -> DeclaredHrefs(n)] :
              S \in {T \in SUBSET (1..n) : Cardinality(T) <= MaxCanonicals}}

\* crawled documents: status code and the text-bearing elements of the body
Documents ==
    { [status_code |-> 200,
       html_content |-> <<Node("main", "content", <<"x", "y">>, 45)>>],
      [status_code |-> 200,
       html_content |-> <<Node("nav", "", <<"z">>, 3),
                          Node("main", "content", <<"x", "y">>, 45)>>],
      [status_code |-> 200,
       html_content |-> <<Node("p", "", <<"x", "y">>, 60),
                          Node("div", "cookie-banner", <<"z", "z">>, 5)>>],
      [status_code |-> 200,
       html_content |-> <<Node("main", "", <<"x", "y">>, 30)>>],
      [status_code |-> 200,
       html_content |-> <<Node("article", "", <<"x", "z">>, 45)>>],
      [status_code |-> 200,
       html_content |-> <<Node("main", "", <<"x", "y">>, 65)>>],
      [status_code |-> 200,
       html_content |-> <<Node("p", "", <<"x", "y">>, 60),
                          Inside("aside", "", Node("article", "", <<"x", "z">>, 45))>>] }

\* variant: pages are signed whatever their number of words
Signed_NoMinimum(doc) ==
    LET text     == _extract_text(doc.html_content)
        shingles == _create_shingles(text)
    IN  [signed    |-> /\ doc.status_code = 200
                       /\ doc.html_content # <<>>
                       /\ text # <<>>
                       /\ shingles # {},
         text      |-> text,
         words     |-> Len(text),
         signature |-> _create_minhash_signature(shingles)]

\* analyze, step 1, per document: text, words, shingles, signature
Signed(doc) ==
    LET text     == _extract_text(doc.html_content)
        shingles == _create_shingles(text)
    IN  [signed    |-> /\ doc.status_code = 200
                       /\ doc.html_content # <<>>
                       /\ text # <<>>
                       /\ Len(text) >= _MIN_WORDS
                       /\ shingles # {},
         text      |-> text,
         words     |-> Len(text),
         signature |-> _create_minhash_signature(shingles)]

\* Signed, tabulated once for the documents of the model
SignedTable == [doc \in Documents |-> Signed(doc)] @@ <<>>

RECURSIVE SetToSeq(_)
SetToSeq(S) ==
    IF S = {} THEN <<>>
    ELSE LET x == CHOOSE y \in S : TRUE IN <<x>> \o SetToSeq(S \ {x})

TextTable == SetToSeq({SignedTable[doc].text : doc \in Documents})

\* hashlib.sha256(text).hexdigest(): a digest that tells the texts apart
sha256(text) == CHOOSE i \in 1..Len(TextTable) : TextTable[i] = text

DigestTable == [doc \in Documents |-> sha256(SignedTable[doc].text)] @@ <<>>

\* the document of a crawled page
DocOf(page) ==
    [status_code |-> page.status_code, html_content |-> page.html_content]

RECURSIVE BuildSignatures(_, _)
BuildSignatures(ps, acc) ==
    IF ps = <<>> THEN acc
    ELSE LET page == Head(ps)
             doc  == DocOf(page)
             s    == SignedTable[doc]
         IN  BuildSignatures(Tail(ps),
                IF ~s.signed THEN acc
                ELSE [urls |-> Append(acc.urls, page.url),
                      signatures |-> (page.url :> s.signature) @@ acc.signatures,
                      text_hashes |-> (page.url :> DigestTable[doc]) @@ acc.text_hashes,
                      content_word_counts |-> (page.url :> s.words) @@ acc.content_word_counts,
                      normalized_urls |->
                          (page.url :> DuplicatesAnalyzer_normalize_url(page.url))
                              @@ acc.normalized_urls])

RECURSIVE _build_canonical_targets(_, _)
_build_canonical_targets(ps, targets) ==
    IF ps = <<>> THEN targets
    ELSE LET page          == Head(ps)
             source        == DuplicatesAnalyzer_normalize_url(page.url)
             canonical_url == DuplicatesAnalyzer_normalize_url(
                                  urljoin(page.url, page.canonical))
         IN  _build_canonical_targets(Tail(ps),
                IF page.canonical = NoCanonical THEN targets
                ELSE IF canonical_url # NoCanonical /\ canonical_url # source
                     THEN (source :> canonical_url) @@ targets
                     ELSE targets)

_is_canonical_pair(norm_a, norm_b, targets) ==
    \/ norm_a \in DOMAIN targets /\ targets[norm_a] = norm_b
    \/ norm_b \in DOMAIN targets /\ targets[norm_b] = norm_a

\* variant: the similarity is looked at before the content hashes
ClassifyPair_NearFirst(hash_a, hash_b, jaccard) ==
    IF jaccard * 100 >= _NEAR_DUPLICATE_THRESHOLD * num_hashes THEN "near"
    ELSE IF hash_a = hash_b THEN "exact"
    ELSE "none"

\* variant: a full MinHash estimate counts as exact
ClassifyPair_ByEstimate(hash_a, hash_b, jaccard) ==
    IF jaccard = num_hashes THEN "exact"
    ELSE IF jaccard * 100 >= _NEAR_DUPLICATE_THRESHOLD * num_hashes THEN "near"
    ELSE "none"

\* "Strict exactness: only equal normalized content hashes"
ClassifyPair(hash_a, hash_b, jaccard) ==
    IF hash_a = hash_b THEN "exact"
    ELSE IF jaccard * 100 >= _NEAR_DUPLICATE_THRESHOLD * num_hashes THEN "near"
    ELSE "none"

NoPairs == [exact |-> <<>>, near |-> <<>>, skipped |-> 0, candidates |-> 0]

\* variant: no length pre-filter
LengthRatioTooLow_NoFilter(wc_a, wc_b) == FALSE

\* "ratio = min(wc_a, wc_b) / max(wc_a, wc_b); if ratio < _MIN_LENGTH_RATIO"
LengthRatioTooLow(wc_a, wc_b) ==
    LET lo == Min(wc_a, wc_b)
        hi == IF wc_a < wc_b THEN wc_b ELSE wc_a
    IN  lo * 100 < _MIN_LENGTH_RATIO * hi

\* the body of the pair loop for urls[i], urls[j]
ComparePair(url_a, url_b, acc) ==
    LET norm_a  == normalized_urls[url_a]
        norm_b  == normalized_urls[url_b]
        wc_a    == content_word_counts[url_a]
        wc_b    == content_word_counts[url_b]
        jaccard == _estimate_jaccard(signatures[url_a], signatures[url_b])
        class   == ClassifyPair(text_hashes[url_a], text_hashes[url_b], jaccard)
    IN  IF _is_canonical_pair(norm_a, norm_b, canonical_targets)
        THEN [acc EXCEPT !.skipped = @ + 1]
        ELSE IF LengthRatioTooLow(wc_a, wc_b) THEN acc
        ELSE IF jaccard * 100 < _MINHASH_CANDIDATE_THRESHOLD * num_hashes THEN acc
        ELSE IF class = "exact"
             THEN [acc EXCEPT !.candidates = @ + 1,
                              !.exact = Append(@, <<url_a, url_b, num_hashes>>)]
        ELSE IF class = "near"
             THEN [acc EXCEPT !.candidates = @ + 1,
                              !.near = Append(@, <<url_a, url_b, jaccard>>)]
        ELSE [acc EXCEPT !.candidates = @ + 1]

RECURSIVE ComparePairs(_, _, _, _)
ComparePairs(urls, i, j, acc) ==
    IF i > Len(urls) THEN acc
    ELSE IF j > Len(urls) THEN ComparePairs(urls, i + 1, i + 2, acc)
    ELSE ComparePairs(urls, i, j + 1, ComparePair(urls[i], urls[j], acc))

\* find(x): the root of x (path halving only shortens the chains)
\* one turn of the loop of find: "parent[x] = parent.get(parent[x], parent[x])"
Halve(parent, x) == [parent EXCEPT ![x] = parent[parent[x]]]

\* find(x): the value it returns
RECURSIVE find(_, _)
find(parent, x) ==
    IF parent[x] = x THEN x
    ELSE find(Halve(parent, x), Halve(parent, x)[x])

\* find(x): the parent dict it leaves behind
RECURSIVE Halved(_, _)
Halved(parent, x) ==
    IF parent[x] = x THEN parent
    ELSE Halved(Halve(parent, x), Halve(parent, x)[x])

\* variant: the parent of x itself is set, not the parent of its root
union_LinksNodes(parent, x, y) ==
    IF find(parent, x) # find(parent, y) THEN [parent EXCEPT ![x] = y] ELSE parent

union(parent, x, y) ==
    LET rx == find(parent, x)
        p1 == Halved(parent, x)
        ry == find(p1, y)
        p2 == Halved(p1, y)
    IN  IF rx # ry THEN [p2 EXCEPT ![rx] = ry] ELSE p2

setdefault(parent, x) == IF x \in DOMAIN parent THEN parent ELSE parent @@ (x :> x)

RECURSIVE UnionAll(_, _)
UnionAll(pairs, parent) ==
    IF pairs = <<>> THEN parent
    ELSE LET p  == Head(pairs)
             p1 == setdefault(setdefault(parent, p[1]), p[2])
         IN  UnionAll(Tail(pairs), union(p1, p[1], p[2]))

\* the groups of more than one URL; the halving done by the calls of find
\* in the final loop moves no URL to another root
_group_pairs(pairs) ==
    LET parent == UnionAll(pairs, <<>>)
        roots  == {find(parent, u) : u \in DOMAIN parent}
        groups == {{u \in DOMAIN parent : find(parent, u) = r} : r \in roots}
    IN  {g \in groups : Cardinality(g) > 1}

\* the pages dict handed to analyze
DupInput(n, doc, c) ==
    [i \in 1..n |->
        [url |-> DupUrls[i],
         status_code |-> doc[i].status_code,
         html_content |-> doc[i].html_content,
         canonical |-> IF i \in DOMAIN c THEN c[i] ELSE NoCanonical]]

AnalyzerGiven ==
    /\ \E n \in 1..MaxDupPages :
          \E doc \in [1..n -> Documents], c \in CanonicalChoices(n) :
              dup_pages = DupInput(n, doc, c)
    /\ dup_pc = "signatures"
    /\ dup_urls = <<>>
    /\ signatures = <<>>
    /\ text_hashes = <<>>
    /\ content_word_counts = <<>>
    /\ normalized_urls = <<>>
    /\ canonical_targets = <<>>
    /\ exact_duplicate_pairs = <<>>
    /\ near_duplicate_pairs = <<>>
    /\ canonical_pairs_skipped = 0
    /\ exact_groups = {}
    /\ near_groups = {}

\* analyze, "Step 1: Build signatures", and the canonical targets
SignPages ==
    /\ dup_pc = "signatures"
    /\ LET acc == BuildSignatures(dup_pages,
                     [urls |-> <<>>, signatures |-> <<>>, text_hashes |-> <<>>,
                      content_word_counts |-> <<>>, normalized_urls |-> <<>>])
       IN  /\ dup_urls' = acc.urls
           /\ signatures' = acc.signatures
           /\ text_hashes' = acc.text_hashes
           /\ content_word_counts' = acc.content_word_counts
           /\ normalized_urls' = acc.normalized_urls
    /\ canonical_targets' = _build_canonical_targets(dup_pages, <<>>)
    /\ dup_pc' = "compare"
    /\ UNCHANGED <<dup_pages, exact_duplicate_pairs, near_duplicate_pairs,
                   canonical_pairs_skipped, exact_groups, near_groups>>
    /\ UNCHANGED notDupVars

\* analyze, "Step 2: Compare pages pairwise"
CompareAll ==
    /\ dup_pc = "compare"
    /\ LET acc == ComparePairs(dup_urls, 1, 2, NoPairs)
       IN  /\ exact_duplicate_pairs' = acc.exact
           /\ near_duplicate_pairs' = acc.near
           /\ canonical_pairs_skipped' = acc.skipped
    /\ dup_pc' = "group"
    /\ UNCHANGED <<dup_pages, dup_urls, signatures, text_hashes,
                   content_word_counts, normalized_urls, canonical_targets,
                   exact_groups, near_groups>>
    /\ UNCHANGED notDupVars

\* analyze, "Step 3: Group duplicates"
GroupDuplicates ==
    /\ dup_pc = "group"
    /\ exact_groups' = _group_pairs(exact_duplicate_pairs)
    /\ near_groups' = _group_pairs(near_duplicate_pairs)
    /\ dup_pc' = "done"
    /\ UNCHANGED <<dup_pages, dup_urls, signatures, text_hashes,
                   content_word_counts, normalized_urls, canonical_targets,
                   exact_duplicate_pairs, near_duplicate_pairs,
                   canonical_pairs_skipped>>
    /\ UNCHANGED notDupVars

DupNext == SignPages \/ CompareAll \/ GroupDuplicates

DupInit == AnalyzerGiven /\ CrawlIdle /\ AuditIdle /\ SseIdle /\ ChanIdle /\ NormIdle /\ GroupIdle /\ SiteIdle

SpecDup == DupInit /\ [][DupNext]_vars

(***************************************************************************)
(* Properties of the duplicates analyzer.                                  *)
(***************************************************************************)
DupPageIdx == 1..Len(dup_pages)

\* page a declares a canonical URL that, resolved against its own URL and
\* normalized, is the crawled page b
DeclaresCanonical(a, b) ==
    /\ a # b
    /\ dup_pages[a].canonical # NoCanonical
    /\ DuplicatesAnalyzer_normalize_url(
           urljoin(dup_pages[a].url, dup_pages[a].canonical)) = dup_pages[b].url

\* the two URLs are an entry of the pair list, in either order
PairListed(pairs, u, v) ==
    \E k \in 1..Len(pairs) :
        \/ pairs[k][1] = u /\ pairs[k][2] = v
        \/ pairs[k][1] = v /\ pairs[k][2] = u

GroupedTogether(groups, u, v) == \E g \in groups : u \in g /\ v \in g

\* C8 as stated: when the analysis is done, a page and the crawled page it
\* declares as its canonical URL are not an exact pair, not a near pair,
\* and not together in any exact or near duplicate group.
C8_CanonicalPairNeverReported ==
    dup_pc = "done" =>
        \A a, b \in DupPageIdx :
            DeclaresCanonical(a, b) =>
                /\ ~PairListed(exact_duplicate_pairs, dup_pages[a].url, dup_pages[b].url)
                /\ ~PairListed(near_duplicate_pairs, dup_pages[a].url, dup_pages[b].url)
                /\ ~GroupedTogether(exact_groups \cup near_groups,
                                    dup_pages[a].url, dup_pages[b].url)

\* the suppressed text of a crawled page
SuppressedText(a) == SignedTable[DocOf(dup_pages[a])].text

\* C9: when the analysis is done, two signed pages with identical
\* suppressed text that are not a declared canonical pair are an exact
\* pair and share an exact duplicate group, they are not a near pair, and
\* no two pages are both an exact pair and a near pair.
C9_IdenticalTextIsExactOnly ==
    dup_pc = "done" =>
        /\ \A a, b \in DupPageIdx :
              ( /\ a # b
                /\ dup_pages[a].url \in DOMAIN signatures
                /\ dup_pages[b].url \in DOMAIN signatures
                /\ SuppressedText(a) = SuppressedText(b)
                /\ ~DeclaresCanonical(a, b)
                /\ ~DeclaresCanonical(b, a) ) =>
                    /\ PairListed(exact_duplicate_pairs, dup_pages[a].url, dup_pages[b].url)
                    /\ GroupedTogether(exact_groups, dup_pages[a].url, dup_pages[b].url)
                    /\ ~PairListed(near_duplicate_pairs, dup_pages[a].url, dup_pages[b].url)
        /\ \A a, b \in DupPageIdx :
              ~ ( /\ PairListed(exact_duplicate_pairs, dup_pages[a].url, dup_pages[b].url)
                  /\ PairListed(near_duplicate_pairs, dup_pages[a].url, dup_pages[b].url) )

\* two pages whose documents differ only in boilerplate were grouped as
\* exact duplicates while another pair was classified as near
C9_Witness ==
    /\ dup_pc = "done"
    /\ near_duplicate_pairs # <<>>
    /\ \E a, b \in DupPageIdx :
          /\ a # b
          /\ dup_pages[a].html_content # dup_pages[b].html_content
          /\ SuppressedText(a) = SuppressedText(b)
          /\ PairListed(exact_duplicate_pairs, dup_pages[a].url, dup_pages[b].url)
          /\ GroupedTogether(exact_groups, dup_pages[a].url, dup_pages[b].url)

\* the page's suppressed text has fewer than the minimum number of words
ShortPage(a) == Len(SuppressedText(a)) < _MIN_WORDS

\* the estimate of every two documents, computed once
EstimateTable ==
    [d \in Documents, e \in Documents |->
        _estimate_jaccard(SignedTable[d].signature, SignedTable[e].signature)]
        @@ <<>>

\* what two signed pages are to each other, from these two pages alone
PairVerdict(a, b) ==
    LET sa      == SignedTable[DocOf(dup_pages[a])]
        sb      == SignedTable[DocOf(dup_pages[b])]
        jaccard == EstimateTable[DocOf(dup_pages[a]), DocOf(dup_pages[b])]
    IN  IF DeclaresCanonical(a, b) \/ DeclaresCanonical(b, a) THEN "none"
        ELSE IF Min(sa.words, sb.words) * 100
                   < _MIN_LENGTH_RATIO * (sa.words + sb.words - Min(sa.words, sb.words))
             THEN "none"
        ELSE IF jaccard * 100 < _MINHASH_CANDIDATE_THRESHOLD * num_hashes THEN "none"
        ELSE IF sa.text = sb.text THEN "exact"
        ELSE IF jaccard * 100 >= _NEAR_DUPLICATE_THRESHOLD * num_hashes THEN "near"
        ELSE "none"

\* C19: when the analysis is done (it always gets there), a page with
\* fewer than 80 words of suppressed text has no signature and is in no
\* exact or near pair and in no group, and whether two other pages are an
\* exact or a near pair depends on these two pages only, so the short
\* page's presence does not change it.
C19_ShortPageLeftOut ==
    dup_pc = "done" =>
        LET short == {a \in DupPageIdx : ShortPage(a)}
        IN  /\ \A a \in short :
                  /\ dup_pages[a].url \notin DOMAIN signatures
                  /\ \A b \in DupPageIdx :
                        /\ ~PairListed(exact_duplicate_pairs,
                                       dup_pages[a].url, dup_pages[b].url)
                        /\ ~PairListed(near_duplicate_pairs,
                                       dup_pages[a].url, dup_pages[b].url)
                  /\ \A g \in exact_groups \cup near_groups :
                        dup_pages[a].url \notin g
            /\ \A a, b \in DupPageIdx \ short :
                  a # b =>
                     LET verdict == PairVerdict(a, b)
                     IN  /\ PairListed(exact_duplicate_pairs,
                                       dup_pages[a].url, dup_pages[b].url)
                               <=> verdict = "exact"
                         /\ PairListed(near_duplicate_pairs,
                                       dup_pages[a].url, dup_pages[b].url)
                               <=> verdict = "near"

\* the analysis is done on a short page crawled between two pages that are
\* an exact pair
C19_Witness ==
    /\ dup_pc = "done"
    /\ Len(dup_pages) = 3
    /\ ShortPage(2)
    /\ PairListed(exact_duplicate_pairs, dup_pages[1].url, dup_pages[3].url)
    /\ exact_groups = {{dup_pages[1].url, dup_pages[3].url}}

\* C20: when the analysis is done, two pages whose word counts satisfy
\* shorter/longer < 0.70 are neither an exact nor a near pair, whatever
\* their MinHash estimate.
C20_LengthRatioFilter ==
    dup_pc = "done" =>
        \A a, b \in DupPageIdx :
            LET wa == Len(SuppressedText(a))
                wb == Len(SuppressedText(b))
            IN  (a # b /\ Min(wa, wb) * 100 < 70 * (wa + wb - Min(wa, wb))) =>
                   /\ ~PairListed(exact_duplicate_pairs,
                                  dup_pages[a].url, dup_pages[b].url)
                   /\ ~PairListed(near_duplicate_pairs,
                                  dup_pages[a].url, dup_pages[b].url)

\* two signed pages with equal MinHash signatures (estimate 1.0) and word
\* counts 90 and 130 were compared, and neither declares a canonical link
C20_Witness ==
    /\ dup_pc = "done"
    /\ \E a, b \in DupPageIdx :
          /\ dup_pages[a].url \in DOMAIN signatures
          /\ dup_pages[b].url \in DOMAIN signatures
          /\ signatures[dup_pages[a].url] = signatures[dup_pages[b].url]
          /\ Len(SuppressedText(a)) = 90
          /\ Len(SuppressedText(b)) = 130
          /\ dup_pages[a].canonical = NoCanonical
          /\ dup_pages[b].canonical = NoCanonical
          /\ ~PairListed(near_duplicate_pairs, dup_pages[a].url, dup_pages[b].url)

\* the element, or one of its ancestors below <body>, is an excluded
\* structural tag or carries a boilerplate id/class
InExcludedRegion(node) ==
    \/ node.tag \in _EXCLUDED_TAGS
    \/ _is_boilerplate_node(node)
    \/ \E i \in 1..Len(node.outer) :
          \/ node.outer[i].tag \in _EXCLUDED_TAGS
          \/ _is_boilerplate_node(node.outer[i])

\* the document without its excluded and boilerplate regions
KeepNode(node) == ~InExcludedRegion(node)
MainContent(doc) == SelectSeq(doc, KeepNode)

\* the text of the main content of each document of the model
MainTextTable ==
    [doc \in Documents |-> _extract_text(MainContent(doc.html_content))] @@ <<>>

MainText(a) == MainTextTable[DocOf(dup_pages[a])]

\* C21: when the analysis is done, the suppressed text of every page is
\* the text of the page without its excluded tags and boilerplate
\* subtrees; two eligible pages with identical main content, neither
\* declaring the other canonical, are listed as an exact pair whatever
\* they carry in such regions, and two pages listed as an exact pair have
\* the same main-content text.
C21_BoilerplateNeverContributes ==
    dup_pc = "done" =>
        /\ \A a \in DupPageIdx : SuppressedText(a) = MainText(a)
        /\ \A a, b \in DupPageIdx :
              ( /\ a # b
                /\ MainContent(dup_pages[a].html_content)
                      = MainContent(dup_pages[b].html_content)
                /\ Len(MainText(a)) >= _MIN_WORDS
                /\ ~DeclaresCanonical(a, b)
                /\ ~DeclaresCanonical(b, a) )
              => PairListed(exact_duplicate_pairs,
                            dup_pages[a].url, dup_pages[b].url)
        /\ \A a, b \in DupPageIdx :
              PairListed(exact_duplicate_pairs,
                         dup_pages[a].url, dup_pages[b].url)
              => MainText(a) = MainText(b)

\* the pages whose URL is in the group
PagesIn(g) == {a \in DupPageIdx : dup_pages[a].url \in g}

\* C22 as stated: when the analysis is done, no two pages are together in
\* an exact-duplicate group and also together in a near-duplicate group,
\* and every group has more than one member.
C22_GroupsDisjoint ==
    dup_pc = "done" =>
        /\ \A a, b \in DupPageIdx :
              a # b =>
                 ~ ( /\ GroupedTogether(exact_groups,
                                        dup_pages[a].url, dup_pages[b].url)
                     /\ GroupedTogether(near_groups,
                                        dup_pages[a].url, dup_pages[b].url) )
        /\ \A g \in exact_groups \cup near_groups : Cardinality(g) > 1

\* C22, amended: when the analysis is done, every group has more than one
\* member; the categories are disjoint as pairs: two pages recorded as an
\* exact pair have the same suppressed text and are not recorded as a near
\* pair, two pages recorded as a near pair have different texts; the pages
\* of an exact group all have the same text, and two pages that are
\* together in an exact group and in a near group are joined in the near
\* group through a further page with another text.
C22_PairsDisjointGroupsProper ==
    dup_pc = "done" =>
        /\ \A g \in exact_groups \cup near_groups : Cardinality(g) > 1
        /\ \A a, b \in DupPageIdx :
              /\ PairListed(exact_duplicate_pairs,
                            dup_pages[a].url, dup_pages[b].url)
                 => /\ SuppressedText(a) = SuppressedText(b)
                    /\ ~PairListed(near_duplicate_pairs,
                                   dup_pages[a].url, dup_pages[b].url)
              /\ PairListed(near_duplicate_pairs,
                            dup_pages[a].url, dup_pages[b].url)
                 => SuppressedText(a) # SuppressedText(b)
        /\ \A g \in exact_groups :
              \A a, b \in PagesIn(g) : SuppressedText(a) = SuppressedText(b)
        /\ \A ge \in exact_groups, gn \in near_groups :
              \A a, b \in PagesIn(ge) \cap PagesIn(gn) :
                  a # b =>
                     /\ ~PairListed(near_duplicate_pairs,
                                    dup_pages[a].url, dup_pages[b].url)
                     /\ \E c \in PagesIn(gn) \ PagesIn(ge) :
                           SuppressedText(c) # SuppressedText(a)

\* two pages with the same text form an exact group and a third page, near
\* to both, puts all three into one near group
C22_Witness ==
    /\ dup_pc = "done"
    /\ \E a, b \in DupPageIdx :
          /\ a # b
          /\ GroupedTogether(exact_groups, dup_pages[a].url, dup_pages[b].url)
          /\ GroupedTogether(near_groups, dup_pages[a].url, dup_pages[b].url)
    /\ \E g \in near_groups : Cardinality(g) = 3

(***************************************************************************)
(* Progress fan-out: emit_progress, BroadcastChannel and the SSE           *)
(* event_generator (app/main.py).  Events are named by their position in   *)
(* the audit's sequence of emit_progress calls.                            *)
(***************************************************************************)
HistoryMaxLen == 20    \* deque(maxlen=20)
MaxEvents     == 22    \* the audit emits at most MaxEvents progress events
MaxSessions   == 2     \* the client opens at most MaxSessions SSE sessions

\* deque.append with maxlen: the oldest entry is evicted
DequeAppend(history, event) ==
    IF Len(history) < HistoryMaxLen THEN Append(history, event)
    ELSE Append(Tail(history), event)

\* BroadcastChannel.broadcast: put_nowait on every subscriber's queue; the
\* queues are created without maxsize, so put_nowait never raises
broadcast(mailbox, subscribers, event) ==
    IF subscribers = {} THEN mailbox ELSE Append(mailbox, event)

\* the start_audit handler has created the channel and the empty history
ChannelCreated ==
    /\ sse_emitted = 0
    /\ sse_audit_done = FALSE
    /\ sse_history = <<>>
    /\ sse_subscribers = {}
    /\ sse_mailbox = <<>>
    /\ sse_pc = "idle"
    /\ sse_iter = NoIterator
    /\ sse_delivered = <<>>
    /\ sse_snapshot = <<>>
    /\ sse_session = 0
    /\ sse_expired = FALSE

\* emit_progress: broadcast, then append to the history; the lock is never
\* held across a suspension, so the call runs without interleaving
EmitProgress ==
    /\ ~sse_audit_done
    /\ sse_emitted < MaxEvents
    /\ sse_emitted' = sse_emitted + 1
    /\ sse_audit_done' \in BOOLEAN
    /\ sse_mailbox' = broadcast(sse_mailbox, sse_subscribers, sse_emitted + 1)
    /\ sse_history' = DequeAppend(sse_history, sse_emitted + 1)
    /\ UNCHANGED <<sse_subscribers, sse_pc, sse_iter, sse_delivered,
                   sse_snapshot, sse_session, sse_expired>>
    /\ UNCHANGED notSseVars

\* event_generator from its start to its first suspension: subscribe, then
\* the first step of "for event in history" (the iterator is created on
\* the live deque) up to the first yield, or up to the wait on the queue
\* when the history is empty
Connect ==
    /\ sse_pc \in {"idle", "closed", "crashed"}
    /\ sse_session < MaxSessions
    /\ sse_session' = sse_session + 1
    /\ sse_subscribers' = {sse_session + 1}
    /\ sse_mailbox' = <<>>
    /\ sse_snapshot' = sse_history
    /\ sse_expired' = FALSE
    /\ IF sse_history = <<>>
       THEN /\ sse_pc' = "stream"
            /\ sse_iter' = NoIterator
            /\ sse_delivered' = <<>>
       ELSE /\ sse_pc' = "replay"
            /\ sse_iter' = [index |-> 1, state |-> sse_emitted]
            /\ sse_delivered' = <<sse_history[1]>>
    /\ UNCHANGED <<sse_emitted, sse_audit_done, sse_history>>
    /\ UNCHANGED notSseVars

\* the generator is resumed after a yield of the history replay: the deque
\* iterator raises RuntimeError when the deque was appended to since the
\* iterator was created (the finally block unsubscribes); otherwise the
\* next event is yielded, or the replay is over and the generator waits on
\* its queue
ReplayNext ==
    /\ sse_pc = "replay"
    /\ IF sse_iter.state # sse_emitted
       THEN /\ sse_pc' = "crashed"
            /\ sse_subscribers' = {}
            /\ UNCHANGED <<sse_iter, sse_delivered>>
       ELSE IF sse_iter.index < Len(sse_history)
       THEN /\ sse_iter' = [sse_iter EXCEPT !.index = @ + 1]
            /\ sse_delivered' = Append(sse_delivered, sse_history[sse_iter.index + 1])
            /\ UNCHANGED <<sse_pc, sse_subscribers>>
       ELSE /\ sse_pc' = "stream"
            /\ UNCHANGED <<sse_iter, sse_delivered, sse_subscribers>>
    /\ UNCHANGED <<sse_emitted, sse_audit_done, sse_history, sse_mailbox,
                   sse_snapshot, sse_session, sse_expired>>
    /\ UNCHANGED notSseVars

\* the terminal event is the last one of a finished audit
IsTerminal(event) == sse_audit_done /\ event = sse_emitted

\* variant: the age of the connection is never checked
DurationExceeded_NeverChecked(expired) == FALSE

\* "if time.time() - start_time > MAX_SSE_DURATION" at the top of the loop
DurationExceeded(expired) == expired

\* back at the top of "while True": the error event of an expired session
\* is yielded, otherwise the generator waits on its queue again
LoopTop == IF DurationExceeded(sse_expired) THEN "expired" ELSE "stream"

\* queue.get() returns an event, which is yielded; after a COMPLETED or
\* FAILED event the loop breaks and the finally block unsubscribes
StreamGet ==
    /\ sse_pc = "stream"
    /\ sse_mailbox # <<>>
    /\ sse_delivered' = Append(sse_delivered, Head(sse_mailbox))
    /\ sse_mailbox' = Tail(sse_mailbox)
    /\ IF IsTerminal(Head(sse_mailbox))
       THEN sse_pc' = "closed" /\ sse_subscribers' = {}
       ELSE sse_pc' = LoopTop /\ UNCHANGED sse_subscribers
    /\ UNCHANGED <<sse_emitted, sse_audit_done, sse_history, sse_iter,
                   sse_snapshot, sse_session, sse_expired>>
    /\ UNCHANGED notSseVars

\* queue.get() times out after 60 s: on a finished audit the final state
\* is sent and the loop breaks; on a running audit a ping is sent and the
\* loop goes on
StreamTimeout ==
    /\ sse_pc = "stream"
    /\ sse_mailbox = <<>>
    /\ IF sse_audit_done
       THEN sse_pc' = "closed" /\ sse_subscribers' = {}
       ELSE sse_pc' = LoopTop /\ UNCHANGED sse_subscribers
    /\ UNCHANGED <<sse_emitted, sse_audit_done, sse_history, sse_mailbox,
                   sse_iter, sse_delivered, sse_snapshot, sse_session,
                   sse_expired>>
    /\ UNCHANGED notSseVars

\* time passes while the session streams: its age exceeds MAX_SSE_DURATION
DurationElapses ==
    /\ sse_pc = "stream"
    /\ ~sse_expired
    /\ sse_expired' = TRUE
    /\ UNCHANGED <<sse_emitted, sse_audit_done, sse_history, sse_subscribers,
                   sse_mailbox, sse_pc, sse_iter, sse_delivered, sse_snapshot,
                   sse_session>>
    /\ UNCHANGED notSseVars

\* the generator is resumed after the "Connection timeout" event: break,
\* and the finally block unsubscribes
SessionExpires ==
    /\ sse_pc = "expired"
    /\ sse_pc' = "closed"
    /\ sse_subscribers' = {}
    /\ UNCHANGED <<sse_emitted, sse_audit_done, sse_history, sse_mailbox,
                   sse_iter, sse_delivered, sse_snapshot, sse_session,
                   sse_expired>>
    /\ UNCHANGED notSseVars

\* the client goes away: the generator is closed at a yield or cancelled
\* at the wait on the queue, and the finally block unsubscribes
Disconnect ==
    /\ sse_pc \in {"replay", "stream", "expired"}
    /\ sse_pc' = "closed"
    /\ sse_subscribers' = {}
    /\ UNCHANGED <<sse_emitted, sse_audit_done, sse_history, sse_mailbox,
                   sse_iter, sse_delivered, sse_snapshot, sse_session,
                   sse_expired>>
    /\ UNCHANGED notSseVars

\* one turn of the streaming loop
StreamStep == StreamGet \/ StreamTimeout

SseNext ==
    \/ EmitProgress
    \/ Connect
    \/ ReplayNext
    \/ StreamGet
    \/ StreamTimeout
    \/ DurationElapses
    \/ SessionExpires
    \/ Disconnect

SseInit == ChannelCreated /\ CrawlIdle /\ AuditIdle /\ DupIdle /\ ChanIdle /\ NormIdle /\ GroupIdle /\ SiteIdle

SpecSSE == SseInit /\ [][SseNext]_vars

\* the client reads what the generator yields, queue.get() returns or its
\* 60 s wait_for deadline expires, and time passes
FairSpecSSE ==
    /\ SpecSSE
    /\ WF_vars(ReplayNext)
    /\ WF_vars(StreamStep)
    /\ WF_vars(DurationElapses)
    /\ WF_vars(SessionExpires)

(***************************************************************************)
(* Properties of the progress fan-out.                                     *)
(***************************************************************************)
IsPrefix(s, t) == Len(s) <= Len(t) /\ SubSeq(t, 1, Len(s)) = s

\* the events emitted after the current session subscribed
RECURSIVE Interval(_, _)
Interval(a, b) == IF a > b THEN <<>> ELSE <<a>> \o Interval(a + 1, b)

\* (the history buffer ends with the latest event emitted)
EmittedSince ==
    Interval((IF sse_snapshot = <<>> THEN 0
              ELSE sse_snapshot[Len(sse_snapshot)]) + 1, sse_emitted)

\* what the current session is owed: the history buffer as it was when the
\* session subscribed, then every event broadcast after that
Owed == sse_snapshot \o EmittedSince

\* the session got its events in publish order, none twice
DeliveredInOrder == sse_pc # "idle" => IsPrefix(sse_delivered, Owed)

\* a session that has reached the live stream has missed nothing
NothingMissed ==
    sse_pc = "stream" => sse_delivered \o sse_mailbox = Owed

\* the session is not broken off by an error in the generator
NotBrokenOff == sse_pc # "crashed"

\* C10 as stated: under every interleaving of event_generator with
\* emit_progress, a session receives the history buffer in publish order
\* followed by exactly the events broadcast after it subscribed: no event
\* twice, and none missed.
C10_HistoryThenLiveEvents ==
    /\ DeliveredInOrder
    /\ NothingMissed
    /\ NotBrokenOff

\* ---------------------------------------------------------------------
\* C15: every open subscriber session eventually ends, and a session that
\* has ended has no mailbox left in the channel's subscriber set.
C15_SessionEndsUnsubscribed ==
    /\ (sse_pc \in {"replay", "stream", "expired"})
          ~> (sse_pc \in {"closed", "crashed"})
    /\ [](sse_pc \in {"closed", "crashed"} => sse_subscribers = {})

\* a session on an audit that is still running has ended by exceeding
\* the maximum session duration
C15_Witness ==
    /\ sse_pc = "closed"
    /\ sse_expired
    /\ ~sse_audit_done
    /\ sse_subscribers = {}
    /\ sse_delivered # <<>>

(***************************************************************************)
(* BroadcastChannel with several subscribers (app/main.py).                *)
(***************************************************************************)
MaxQueues     == 2    \* subscribe() is called at most MaxQueues times
MaxBroadcasts == 4    \* broadcast() is called at most MaxBroadcasts times

\* maxsize of the queue made by "asyncio.Queue()": 0, that is, no limit
QueueMaxsize == 0

\* the fixed capacity the specification gives a subscriber's mailbox
MailboxCapacity == 3

Queue(maxsize) == [maxsize |-> maxsize, items |-> <<>>]

\* asyncio.Queue.full()
full(q) == q.maxsize > 0 /\ Len(q.items) >= q.maxsize

\* the subscribers whose put_nowait raises QueueFull
dead_subs(subscribers, queues) == {n \in subscribers : full(queues[n])}

\* the queues after "for sub_queue in self.subscribers: put_nowait(event)"
put_all(subscribers, queues, event) ==
    [n \in DOMAIN queues |->
        IF n \in subscribers /\ ~full(queues[n])
        THEN [queues[n] EXCEPT !.items = Append(@, event)]
        ELSE queues[n]]

ChannelOpen ==
    /\ chan_subscribers = {}
    /\ chan_queues = <<>>
    /\ chan_broadcasts = 0

\* BroadcastChannel.subscribe
subscribe ==
    /\ Len(chan_queues) < MaxQueues
    /\ chan_queues' = Append(chan_queues, Queue(QueueMaxsize))
    /\ chan_subscribers' = chan_subscribers \cup {Len(chan_queues) + 1}
    /\ UNCHANGED chan_broadcasts
    /\ UNCHANGED notChanVars

\* BroadcastChannel.unsubscribe
unsubscribe(n) ==
    /\ n \in DOMAIN chan_queues
    /\ n \in chan_subscribers
    /\ chan_subscribers' = chan_subscribers \ {n}
    /\ UNCHANGED <<chan_queues, chan_broadcasts>>
    /\ UNCHANGED notChanVars

\* BroadcastChannel.broadcast; the lock is free whenever it is called, and
\* nothing in the method suspends
ChanBroadcast ==
    /\ chan_broadcasts < MaxBroadcasts
    /\ chan_broadcasts' = chan_broadcasts + 1
    /\ chan_queues' = put_all(chan_subscribers, chan_queues, chan_broadcasts + 1)
    /\ chan_subscribers' = chan_subscribers \ dead_subs(chan_subscribers, chan_queues)
    /\ UNCHANGED notChanVars

\* the subscriber's "await queue.get()" takes the oldest event
QueueGet(n) ==
    /\ n \in DOMAIN chan_queues
    /\ chan_queues[n].items # <<>>
    /\ chan_queues' = [chan_queues EXCEPT ![n].items = Tail(@)]
    /\ UNCHANGED <<chan_subscribers, chan_broadcasts>>
    /\ UNCHANGED notChanVars

ChanNext ==
    \/ subscribe
    \/ \E n \in 1..MaxQueues : unsubscribe(n)
    \/ ChanBroadcast
    \/ \E n \in 1..MaxQueues : QueueGet(n)

ChanInit == ChannelOpen /\ CrawlIdle /\ AuditIdle /\ DupIdle /\ SseIdle /\ NormIdle /\ GroupIdle /\ SiteIdle

SpecChan == ChanInit /\ [][ChanNext]_vars

(***************************************************************************)
(* Properties of the broadcast channel.                                    *)
(***************************************************************************)
\* C11 as stated: in every broadcast, a subscriber whose mailbox is full
\* (it holds MailboxCapacity undelivered events) is removed from the
\* subscriber set, and every other subscriber stays subscribed and gets
\* the event appended to its mailbox in that same broadcast.
C11_FullSubscriberDropped ==
    [][chan_broadcasts' = chan_broadcasts + 1 =>
          \A n \in chan_subscribers :
              IF Len(chan_queues[n].items) >= MailboxCapacity
              THEN n \notin chan_subscribers'
              ELSE /\ n \in chan_subscribers'
                   /\ chan_queues'[n].items =
                          Append(chan_queues[n].items, chan_broadcasts + 1)]_vars

\* C12 as stated: the number of undelivered events queued for a subscriber
\* never exceeds the fixed capacity of its mailbox.
C12_MailboxBounded ==
    \A n \in DOMAIN chan_queues : Len(chan_queues[n].items) <= MailboxCapacity

(***************************************************************************)
(* URL normalisation applied repeatedly (app/crawler.py,                   *)
(* app/analyzers/duplicates.py).                                           *)
(***************************************************************************)
MaxPathTokens == 3   \* a path is "/" followed by at most MaxPathTokens tokens
MaxNormalize  == 2   \* the normalizer is applied at most MaxNormalize + 1 times

PathTokens == {"/", ";", "a"}

\* the paths "/" + t1 ... tn over PathTokens
NormPaths ==
    UNION {{<<"/">> \o t : t \in [1..n -> PathTokens]} : n \in 0..MaxPathTokens}

\* the URL strings handed to the normalizers
NormUrls ==
    {[scheme |-> "https", netloc |-> h, path |-> p, query |-> q, fragment |-> f] :
        h \in {"Example.COM", "example.com"}, p \in NormPaths,
        q \in {"", "q=1"}, f \in {"", "top"}}

NormGiven ==
    /\ norm_url \in NormUrls
    /\ norm_which \in {"crawler", "duplicates"}
    /\ norm_results = <<>>

\* what the next application is given: the URL, or the latest result
NormArgument ==
    IF norm_results = <<>> THEN norm_url ELSE norm_results[Len(norm_results)]

\* WebCrawler._normalize_url is applied to the URL or to its latest result
CrawlerNormalize ==
    /\ norm_which = "crawler"
    /\ Len(norm_results) <= MaxNormalize
    /\ norm_results' = Append(norm_results, _normalize_url(NormArgument))
    /\ UNCHANGED <<norm_url, norm_which>>
    /\ UNCHANGED notNormVars

\* DuplicatesAnalyzer._normalize_url is applied likewise
DuplicatesNormalize ==
    /\ norm_which = "duplicates"
    /\ Len(norm_results) <= MaxNormalize
    /\ norm_results' = Append(norm_results,
                              DuplicatesAnalyzer_normalize_url(NormArgument))
    /\ UNCHANGED <<norm_url, norm_which>>
    /\ UNCHANGED notNormVars

NormNext == CrawlerNormalize \/ DuplicatesNormalize

NormInit ==
    NormGiven /\ CrawlIdle /\ AuditIdle /\ DupIdle /\ SseIdle /\ ChanIdle
        /\ GroupIdle /\ SiteIdle

SpecNorm == NormInit /\ [][NormNext]_vars

\* ---------------------------------------------------------------------
\* C18: normalizing a normalized URL changes nothing, for the crawler's
\* and for the duplicates analyzer's _normalize_url:
\* normalize(normalize(u)) = normalize(u).
C18_NormalizeIdempotent ==
    Len(norm_results) >= 2 => norm_results[2] = norm_results[1]

(***************************************************************************)
(* _group_pairs on its own (app/analyzers/duplicates.py), given the pair   *)
(* lists the pair loop of analyze can build: pairs (urls[i], urls[j]) with *)
(* i < j, in the order of the loop, any of them present or absent.         *)
(***************************************************************************)
MaxGroupUrls == 4    \* the pairs are over DupUrls[1..MaxGroupUrls]

\* the pairs the loop visits after (i, j), in its order
RECURSIVE LoopPairs(_, _, _)
LoopPairs(n, i, j) ==
    IF i >= n THEN <<>>
    ELSE IF j > n THEN LoopPairs(n, i + 1, i + 2)
    ELSE <<<<i, j>>>> \o LoopPairs(n, i, j + 1)

\* the recorded pairs: those of the chosen set, in loop order, each with
\* its similarity
PairList(n, chosen) ==
    LET all     == LoopPairs(n, 1, 2)
        Keep(p) == p \in chosen
        kept    == SelectSeq(all, Keep)
    IN  [k \in 1..Len(kept) |->
            <<DupUrls[kept[k][1]], DupUrls[kept[k][2]], num_hashes>>]

GroupGiven ==
    /\ \E n \in 2..MaxGroupUrls :
          \E chosen \in SUBSET Range(LoopPairs(n, 1, 2)) :
              gp_pairs = PairList(n, chosen)
    /\ gp_groups = {}
    /\ gp_pc = "call"

\* exact_groups = self._group_pairs(exact_duplicate_pairs)
GroupPairs ==
    /\ gp_pc = "call"
    /\ gp_groups' = _group_pairs(gp_pairs)
    /\ gp_pc' = "returned"
    /\ UNCHANGED gp_pairs
    /\ UNCHANGED notGroupVars

GroupNext == GroupPairs

GroupInit ==
    GroupGiven /\ CrawlIdle /\ AuditIdle /\ DupIdle /\ SseIdle /\ ChanIdle /\ NormIdle
        /\ SiteIdle

SpecGroup == GroupInit /\ [][GroupNext]_vars

\* the URLs occurring in a pair
PairUrls == UNION {{gp_pairs[k][1], gp_pairs[k][2]} : k \in 1..Len(gp_pairs)}

\* the URLs a chain of pairs connects to a URL of S
RECURSIVE Reach(_)
Reach(S) ==
    LET T == S \cup {u \in PairUrls :
                        \E v \in S : PairListed(gp_pairs, u, v)}
    IN  IF T = S THEN S ELSE Reach(T)

\* C24: what _group_pairs returns are the connected components of the
\* graph of the pairs: every URL of a pair is in exactly one group, two
\* URLs share a group exactly when a chain of pairs connects them, the
\* groups are pairwise disjoint and none is a singleton.
C24_GroupsAreComponents ==
    gp_pc = "returned" =>
        /\ gp_groups = {Reach({u}) : u \in PairUrls}
        /\ \A u \in PairUrls :
              Cardinality({g \in gp_groups : u \in g}) = 1
        /\ \A u, v \in PairUrls :
              GroupedTogether(gp_groups, u, v) <=> v \in Reach({u})
        /\ \A g, h \in gp_groups : g # h => g \cap h = {}
        /\ \A g \in gp_groups : Cardinality(g) > 1 /\ g \subseteq PairUrls

\* the call returned one group of four URLs joined by three pairs, two of
\* its URLs with no pair of their own
C24_Witness ==
    /\ gp_pc = "returned"
    /\ Cardinality(gp_groups) = 1
    /\ \E g \in gp_groups :
          /\ Cardinality(g) = 4
          /\ \E u, v \in g : u # v /\ ~PairListed(gp_pairs, u, v)
    /\ Len(gp_pairs) = 3

(***************************************************************************)
(* WebCrawler.crawl on a site given beforehand (app/crawler.py): five      *)
(* pages, link lists of up to three links, so that with two parallel       *)
(* requests a batch holds entries of two depths.                           *)
(***************************************************************************)
MaxSitePages == 5    \* max_pages is 1..MaxSitePages on the given sites

PageE == _normalize_url(Url("example.com", <<"/", "e">>, ""))

SiteOf(a, b, c, d, e) ==
    (PageA :> a) @@ (PageB :> b) @@ (PageC :> c) @@ (PageD :> d)
        @@ (PageE :> e) @@ (PageP :> <<>>)

\* the link lists of the five pages A..E of each site
Sites ==
    { SiteOf(<<PageB, PageC, PageD>>, <<PageE>>, <<PageE, PageA>>,
             <<PageA>>, <<PageB>>),
      SiteOf(<<PageB, PageC>>, <<PageD>>, <<PageE>>, <<PageE>>, <<PageA>>),
      SiteOf(<<PageB>>, <<PageC, PageD, PageE>>, <<PageD>>, <<PageE>>, <<>>),
      SiteOf(<<PageB, PageC, PageD>>, <<PageC>>, <<PageD>>, <<PageE, PageP>>,
             <<PageE>>) }

SiteGiven ==
    /\ site \in Sites
    /\ max_pages \in 1..MaxSitePages
    /\ parallel_requests \in 1..MaxParallel
    /\ visited = {}
    /\ queue = <<>>
    /\ pages = <<>>
    /\ batch = <<>>
    /\ results = <<>>
    /\ res_idx = 1
    /\ crawl_pc = "init"
    /\ permits = parallel_requests
    /\ open_pages = {}
    /\ dequeued = <<>>
    /\ enqueued = <<>>
    /\ outcome_of = <<>>

SiteInit ==
    SiteGiven /\ AuditIdle /\ DupIdle /\ SseIdle /\ ChanIdle /\ NormIdle
        /\ GroupIdle

SpecSite == SiteInit /\ [][CrawlNext]_vars

\* the URLs the pages of S link to, counting only pages fetched with 200
LinkedFrom(S) == UNION {Range(ObservedLinks(u)) : u \in S}

\* the length of the shortest link path from the seed to u through pages
\* fetched with status 200; -1 when there is none
RECURSIVE PathLength(_, _, _, _)
PathLength(u, level, seen, k) ==
    IF u \in level THEN k
    ELSE IF level = {} THEN -1
    ELSE PathLength(u, LinkedFrom(level) \ seen,
                    seen \cup LinkedFrom(level), k + 1)

ShortestPath(u) == PathLength(u, {start_url}, {start_url}, 0)

\* C28: at every moment of the crawl, the depth recorded for a stored page
\* is the length of the shortest link path from the seed to it through
\* pages fetched with status 200.
C28_DepthIsShortestPath ==
    \A u \in DOMAIN pages : pages[u].depth = ShortestPath(u)

\* the crawl ended after a batch of two entries of different depths; a
\* page of depth 2 was stored and some fetched page did not answer 200
C28_Witness ==
    /\ crawl_pc = "done"
    /\ parallel_requests = 2
    /\ Len(batch) = 2
    /\ batch[1][2] # batch[2][2]
    /\ batch[1][1] \in DOMAIN pages
    /\ batch[2][1] \in DOMAIN pages
    /\ \E u, v \in DOMAIN pages :
          pages[u].depth = 2 /\ pages[v].status_code # 200

====
